---- MODULE Spec2Model ----
(***************************************************************************)
(* Model of the eBPF compiler and hook multiplexer of DeChainy             *)
(* (src/dechainy/ebpf.py): the per-hook program lists, the free-lists of   *)
(* chain slot IDs, the chain dispatch maps, the SwapStateCompile pairs,    *)
(* the interface registry with the kernel attachments (clsact qdiscs, XDP  *)
(* programs) and the life cycle of the EbpfCompiler singleton (sentinel    *)
(* interface, exit hook, polling thread).                                  *)
(***************************************************************************)
EXTENDS Integers, Sequences, FiniteSets, TLC

\* BPF._MAX_PROGRAMS_PER_HOOK
MAX_PROGRAMS_PER_HOOK == 32

\* Bounds of the specification Spec (short chain, calls that fail included).
MaxCalls == 3
MaxFaults == 1
MaxRemoves == 2

\* Bounds of the specification SpecChain (chain of four, no compile_hook fails).
MaxCallsChain == 4
MaxRemovesChain == 1

\* Bounds of the specification SpecFull (a chain filled up to its capacity).
MaxCallsFull == 33
MaxRemovesFull == 2

\* Bounds of the specification SpecIface (two interfaces, every hook).
MaxCallsIface == 3
MaxRemovesIface == 2

\* Bounds of the specification SpecGc (the Program objects and their release).
MaxCallsGc == 2
MaxFaultsGc == 1
MaxRemovesGc == 2

\* Bounds of the specification SpecLookup (interface names, known or not).
MaxCallsLookup == 2
MaxRemovesLookup == 1

\* Bound of the specification SpecRedirect: the statements of a source.
MaxLines == 3

\* Bound of the specification SpecParse: the map declarations of a source.
MaxDecls == 2

\* Bounds of the specification SpecPatch (probes patched in place).
MaxCallsPatch == 3
MaxRemovesPatch == 1

\* Bound of the specification SpecPerf: the records of the log buffer.
MaxRecords == 4

\* Bounds of the specification SpecThreads, calls of the two threads together.
MaxCallsThreads == 2

MaxRemovesThreads == 1

\* Bounds of the specification SpecTeardown, calls of the two threads together.
MaxCallsTeardown == 2

MaxRemovesTeardown == 1

\* Bound of the specification SpecSingleton, calls of the two threads together.
MaxConstructsSingleton == 3

\* Bounds of the specification SpecSiblings, calls of the two threads together.
MaxCallsSiblings == 2

MaxRemovesSiblings == 2

\* Bounds of the specification SpecProbes: the programs the Controller loads,
\* and the probes of a cluster.
MaxLoadsProbes == 4

MaxClusterProbes == 2

\* Bound of the specification SpecRules: max_rules of the plugins.
MaxRules == 2

\* Bounds of the specification SpecMode.
MaxCallsMode == 2

MaxRemovesMode == 1

\* Bounds of the specification SpecLife (two controller processes).
MaxConstructs == 2
MaxCallsLife == 1
MaxRemovesLife == 1

\* The hook slots of an InterfaceHolder. Their defaults are four HookTypeHolder
\* objects built once, in the class body, and shared by every InterfaceHolder.
Hooks == {"ingress_xdp", "ingress_tc", "egress_xdp", "egress_tc"}

\* Probe sources: without SWAP maps, with a SWAP map and an EXPORT-only map.
Codes == {"plain", "swap"}

\* What can go wrong inside one compile_hook call: the REDIRECT interface of
\* the source does not resolve, the toolchain rejects the pivot / the probe /
\* the swap clone, the kernel refuses to attach the pivot.
Faults == {"none", "pivot_compile", "pivot_attach", "rewrite", "compile", "swap_compile"}

\* XDP_FLAGS_SKB_MODE, XDP_FLAGS_DRV_MODE, XDP_FLAGS_HW_MODE.
XDPFlags == {2, 4, 8}

\* The controller processes on the host. Process 1 is the controller whose
\* registry and hooks are modelled; process 2 is a second controller started
\* on the same host, which attaches no probe.
Procs == {1, 2}

\* The links of the host, by ifindex.
Host == <<"eth0", "eth1">>

\* Interface names a caller may pass: those of the host and one that is no link.
Interfaces == {"eth0", "eth1", "eth9"}

\* Controller.__declarations, for plugins_to_load = ["adaptmon"].
PluginsToLoad == {"adaptmon"}

\* Plugin names a caller may pass: the registered one and one that is not.
PluginNames == {"adaptmon", "nosuch"}

ProbeNames == {"p1", "p2"}

ClusterNames == {"c1"}

\* The hooks __compile and __remove_probe_programs go through, in their order.
ProgramTypes == <<"ingress", "egress">>

\* What ProbeCompilation holds for a hook without a program.
NoProgram == [fd |-> 0, probe_id |-> 0]

ProbeCompilation == [ingress |-> NoProgram, egress |-> NoProgram]

\* One hook list of an InterfaceHolder, with the chain map of its pivot.
NoHookPrograms == [programs |-> << >>, next |-> << >>]

\* The rule lists of the plugins (plugins/firewall, plugins/mitigator). A word
\* of rule_words is the set of the positions of its bits that are 1.

\* The bits of a word of rule_words.
WordBits == 64

\* x << n and x >> n on Python integers, x & (2^n - 1), and what a c_uint64
\* keeps of an integer stored into it.
Shl(x, n) == {p + n : p \in x}

Shr(x, n) == {p - n : p \in {q \in x : q >= n}}

LowBits(x, n) == {p \in x : p < n}

Uint64(x) == {p \in x : p < WordBits}

\* The integer 0 or 1 as a word.
BitWord(b) == IF b = 1 THEN {0} ELSE {}

\* ceil(max_rules / 64)
WordsPerEntry(max_rules) == (max_rules + WordBits - 1) \div WordBits

\* (ct.c_uint64 * rule_ids_word_per_entry)(), indexed from 1.
ZeroWords(n) == [w \in 1..n |-> {}]

\* utility.ipv4_to_network_int of a dotted address, given by its four numbers.
Ipv4ToNetworkInt(address) ==
    address[1] + 256 * address[2] + 65536 * address[3] + 16777216 * address[4]

\* utility.port_to_network_int: htons on a little-endian host.
PortToNetworkInt(port) == (port % 256) * 256 + (port \div 256)

\* utility.protocol_to_int: socket.getprotobyname.
ProtocolToInt(name) == CASE name = "ICMP" -> 1 [] name = "TCP" -> 6 [] name = "UDP" -> 17

\* translate_flags of Firewall.translate_rule, for the flag names in use.
TranslateFlags(flags) == CASE flags = "SYN" -> 2 [] flags = "ACK" -> 16

\* Firewall._MAPS
FirewallMaps == <<"IPV4_SRC", "IPV4_DST", "PORT_SRC", "PORT_DST", "IP_PROTO", "TCP_FLAGS">>

\* Firewall._ALL_MAPS
FirewallAllMaps ==
    {FirewallMaps[i] : i \in DOMAIN FirewallMaps}
        \cup {FirewallMaps[i] \o "_WILDCARDS" : i \in DOMAIN FirewallMaps}

\* An Optional value: None, or the value.
None == << >>

Some(v) == <<v>>

\* Firewall.translate_rule: per map of _MAPS, the key of the rule or None.
TranslateRule(rule) ==
    LET translate_ip(ip) == [netmask_len |-> 32, ip |-> Ipv4ToNetworkInt(ip)]
    IN <<IF rule.src = None THEN None ELSE Some(translate_ip(rule.src[1])),
         IF rule.dst = None THEN None ELSE Some(translate_ip(rule.dst[1])),
         IF rule.sport = None THEN None ELSE Some(PortToNetworkInt(rule.sport[1])),
         IF rule.dport = None THEN None ELSE Some(PortToNetworkInt(rule.dport[1])),
         IF rule.l4proto = None THEN None ELSE Some(ProtocolToInt(rule.l4proto[1])),
         IF rule.tcpflags = None THEN None ELSE Some(TranslateFlags(rule.tcpflags[1]))>>

\* A FirewallRule that names a source address only, or a protocol only.
SrcRule(k) ==
    [src |-> Some(<<10, 0, 0, k>>), dst |-> None, sport |-> None, dport |-> None,
     l4proto |-> None, tcpflags |-> None]

ProtoRule(name) ==
    [src |-> None, dst |-> None, sport |-> None, dport |-> None,
     l4proto |-> Some(name), tcpflags |-> None]

\* The rules a caller may pass to the Firewall and to the Mitigator.
FirewallRules == {SrcRule(k) : k \in 1..MaxRules} \cup {ProtoRule("TCP")}

MitigatorRules == {[netmask |-> 32, ip |-> <<10, 0, 0, k>>] : k \in 1..MaxRules + 1}

\* Firewall.__post_init__ with extra["max_rules"], one hook required: the rules
\* of the hook, the maps of its program and its ACTIONS.
NewFirewall(max_rules) ==
    [max_rules |-> max_rules, rule_ids_word_per_entry |-> WordsPerEntry(max_rules),
     rules |-> << >>, maps |-> [map_name \in FirewallAllMaps |-> << >>],
     actions |-> << >>]

\* Mitigator.__post_init__ with extra["max_rules"].
NewMitigator(max_rules) == [max_rules |-> max_rules, rules |-> << >>, map |-> {}]

\* No call of a plugin yet.
NoRuleCall == [plugin_name |-> "none", op |-> "none", rule_id |-> 0, rule |-> None]

\* The statements of the sources given to __format_helpers: a redirect to the
\* interface ifname, or a statement without REDIRECT.
Statements ==
    {[redirect |-> FALSE, ifname |-> "eth0"]}
       \cup {[redirect |-> TRUE, ifname |-> n] : n \in Interfaces}

RedirectSources == UNION {[1..n -> Statements] : n \in 0..MaxLines}

\* The map declarations of the sources given to __precompile_parse: the macro
\* and the name of the map, whether __attributes__(...) follows and with which
\* keywords.
Maps ==
    {[macro |-> "BPF_TABLE", name |-> "flows"],
     [macro |-> "BPF_QUEUESTACK", name |-> "flows_total"],
     [macro |-> "BPF_PERF", name |-> "drops"]}

KeywordSets == {{}, {"SWAP"}, {"EXPORT"}, {"SWAP", "EXPORT"}, {"EXPORT", "EMPTY"}}

Declarations ==
    {[macro |-> m.macro, name |-> m.name, attributes |-> FALSE, keywords |-> {}] : m \in Maps}
       \cup {[macro |-> m.macro, name |-> m.name, attributes |-> TRUE, keywords |-> k] :
                m \in Maps, k \in KeywordSets}

\* A source declares no map twice.
ParseSources ==
    UNION {{src \in [1..n -> Declarations] :
               \A i, j \in 1..n : src[i].name = src[j].name => i = j} : n \in 0..MaxDecls}

\* The records the data plane puts in the log buffer: whether plugin_id and
\* probe_id name a probe of the controller, and the content.
Records == [resolves : BOOLEAN, content : {"text", "bad_utf8", "bad_format"}]

\* The threads of the controller process that call into the EbpfCompiler.
Threads == {1, 2}

\* What can go wrong inside EbpfCompiler.__init__ once the sentinel exists.
InitFaults == {"none", "startup_compile"}

VARIABLES
    interfaces_programs, \* EbpfCompiler.__interfaces_programs, in insertion order
    holder,              \* the four HookTypeHolder objects: programs and ids
    next_map,            \* per hook, the chain dispatch map reached via programs[0]
    loaded,              \* kernel: PROGRAM_ID compiled into each program ever loaded, by fd
    ncalls,              \* number of compile_hook calls so far
    nremoves,            \* number of remove_hook calls so far
    nfaults,             \* number of compile_hook calls that hit a fault
    handed,              \* history: the slot IDs taken from a free-list, in order
    returned,            \* history: the slot IDs appended to a free-list, in order
    last,                \* the last call: operation, result, hook, slot ID, and the call before
    pre,                 \* the target hook and the registry as they were before the last call
    request,             \* the arguments of the last compile_hook call
    clsact,              \* kernel: per idx with a clsact qdisc, the parents of its filters
    xdp,                 \* kernel: per idx with an XDP program attached, the flags of the attach
    sentinel,            \* kernel: the dummy link DeChainy exists
    instance,            \* per process, Singleton._instance of EbpfCompiler
    garbage,             \* per process, the EbpfCompiler objects no longer referenced
    exit_hooks,          \* per process, the number of callbacks registered with atexit
    startup,             \* per process, the number of startup programs compiled
    poll_threads,        \* per process, the number of polling threads running
    running,             \* per process, whether the process is running
    nconstructs,         \* number of EbpfCompiler(...) calls so far
    heap,                \* the Program objects ever built, by fd: __is_destroyed, cleanups run
    thread,              \* per thread of the controller, the call it is in and where
    lock,                \* per hook, HookTypeHolder.lock: the owning thread and the depth
    source,              \* the probe source handed to the source rewriter
    output,              \* what the source rewriter has made of it
    dispatcher,          \* the polling thread of process 1: running, records seen and logged
    probes,              \* Controller.__probes: per plugin, the probes by name
    clusters,            \* Controller.__clusters: per name, the probes of the cluster
    controller_programs, \* Controller.__programs of the interface in use: per program type
    call,                \* the last call of the Controller: its arguments, and the probes
                         \* created and not deleted since
    firewall,            \* a Firewall probe: the rules of its hook, the maps of its program
    mitigator,           \* a Mitigator probe: its rules and the keys of BLACKLISTED_IPS
    rule_call            \* the arguments of the last call of a plugin

chainvars == <<interfaces_programs, holder, next_map, loaded, ncalls, nremoves, nfaults,
               handed, returned, pre, request>>

hookvars == <<chainvars, clsact, xdp, heap>>

lifevars == <<sentinel, instance, garbage, exit_hooks, startup, poll_threads, running,
              nconstructs>>

threadvars == <<thread, lock>>

textvars == <<source, output>>

ctlvars == <<probes, clusters, controller_programs, call>>

plugvars == <<firewall, mitigator, rule_call>>

appvars == <<ctlvars, plugvars>>

vars == <<hookvars, lifevars, threadvars, textvars, appvars, dispatcher, last>>

----------------------------------------------------------------------------
\* Data.

\* HookTypeHolder(): programs = [], ids = list(range(1, MAX_PROGRAMS_PER_HOOK)).
HookTypeHolder == [programs |-> <<>>, ids |-> [i \in 1..(MAX_PROGRAMS_PER_HOOK - 1) |-> i]]

\* A Program (fds = <<f.fd>>) or a SwapStateCompile (fds of _programs[0] and
\* _programs[1], index = __index).
NewProgram(program_id, idx, mode, flags, code, fd) ==
    [program_id |-> program_id, idx |-> idx, mode |-> mode, flags |-> flags, code |-> code,
     swap |-> FALSE, fds |-> <<fd>>, index |-> 0]

SwapStateCompile(p0, fd1) ==
    [program_id |-> p0.program_id, idx |-> p0.idx, mode |-> p0.mode, flags |-> p0.flags,
     code |-> p0.code, swap |-> TRUE, fds |-> <<p0.fds[1], fd1>>, index |-> 0]

\* Dataclass equality, used by list.index: the fields, not the object identity
\* (bpf and f are no fields).
ProgramEq(p, q) ==
    /\ p.swap = q.swap
    /\ p.program_id = q.program_id
    /\ p.idx = q.idx
    /\ p.mode = q.mode
    /\ p.code = q.code

\* target.programs.index(program): first equal element, 0 when there is none.
IndexOf(programs, program) ==
    LET hits == {j \in 1..Len(programs) : ProgramEq(programs[j], program)}
    IN IF hits = {} THEN 0 ELSE CHOOSE j \in hits : \A k \in hits : j <= k

\* The chain dispatch map belongs to the pivot: it is created empty with the
\* pivot and is gone with it.
PivotChainMap == << >>

NoChainMap == << >>

MapSet(m, k, v) == [x \in (DOMAIN m) \cup {k} |-> IF x = k THEN v ELSE m[x]]

MapDel(m, k) == [x \in (DOMAIN m) \ {k} |-> m[x]]

\* ip.link_lookup(ifname=interface): the indexes of the links with that name.
LinkLookupAny(interface) == <<1>>

LinkLookup(interface) == SelectSeq([k \in DOMAIN Host |-> k], LAMBDA k : Host[k] = interface)

----------------------------------------------------------------------------
\* Text. A source is a sequence of lines, a line is a string.

\* str.find(sub, i): the first position from i on where sub starts, 0 for none.
RECURSIVE Find(_, _, _)
Find(s, sub, i) ==
    IF i + Len(sub) - 1 > Len(s) THEN 0
    ELSE IF SubSeq(s, i, i + Len(sub) - 1) = sub THEN i
    ELSE Find(s, sub, i + 1)

\* sub in s
Contains(s, sub) == Find(s, sub, 1) # 0

\* s.startswith(prefix)
StartsWith(s, prefix) == Len(prefix) <= Len(s) /\ SubSeq(s, 1, Len(prefix)) = prefix

\* s.replace(old, new): every occurrence, from the left, not overlapping.
RECURSIVE Replace(_, _, _)
Replace(s, old, new) ==
    LET i == Find(s, old, 1) IN
    IF i = 0 THEN s
    ELSE SubSeq(s, 1, i - 1) \o new \o Replace(SubSeq(s, i + Len(old), Len(s)), old, new)

\* s.split(sep)
RECURSIVE Split(_, _)
Split(s, sep) ==
    LET i == Find(s, sep, 1) IN
    IF i = 0 THEN <<s>>
    ELSE <<SubSeq(s, 1, i - 1)>> \o Split(SubSeq(s, i + Len(sep), Len(s)), sep)

\* s.count(sub)
Count(s, sub) == Len(Split(s, sub)) - 1

\* s.strip(), for blanks.
RECURSIVE Strip(_)
Strip(s) ==
    IF s = "" THEN s
    ELSE IF SubSeq(s, 1, 1) = " " THEN Strip(SubSeq(s, 2, Len(s)))
    ELSE IF SubSeq(s, Len(s), Len(s)) = " " THEN Strip(SubSeq(s, 1, Len(s) - 1))
    ELSE s

\* sep.join(parts)
RECURSIVE Join(_, _)
Join(parts, sep) ==
    IF parts = << >> THEN ""
    ELSE IF Len(parts) = 1 THEN parts[1]
    ELSE parts[1] \o sep \o Join(Tail(parts), sep)

----------------------------------------------------------------------------
\* The source rewriter.

\* Nothing has been rewritten.
NoOutput == [op |-> "none"]

\* cloned_code = None
NoCode == <<"None">>

\* helpers.h and wrapper.c, read from sourcebpf/ and put in front of the code.
HelpersCode == <<"helpers.h">>

WrapperCode == <<"wrapper.c">>

\* finditer(r"return REDIRECT\((.*)\);.*$", code, MULTILINE) on one line: the
\* start of the match, 0 for none. The match runs to the end of the line.
RedirectStart(line) ==
    LET i == Find(line, "return REDIRECT(", 1) IN
    IF i # 0 /\ Find(line, ");", i + Len("return REDIRECT(")) # 0 THEN i ELSE 0

\* m.group(): the whole match.
RedirectGroup(line) == SubSeq(line, RedirectStart(line), Len(line))

\* __format_helpers, the loop over the matches from the last to the first:
\* declaration is m.group(), and it is what link_lookup is asked for.
RECURSIVE FormatRedirects(_, _)
FormatRedirects(code, n) ==
    IF n = 0 THEN [result |-> "ok", code |-> code]
    ELSE LET start == RedirectStart(code[n]) IN
         IF start = 0 THEN FormatRedirects(code, n - 1)
         ELSE LET declaration == RedirectGroup(code[n])
                  found == LinkLookup(declaration)
              IN IF found = << >>
                 THEN [result |-> "UnknownInterface", code |-> code]
                 ELSE FormatRedirects(
                          [code EXCEPT ![n] = SubSeq(@, 1, start - 1) \o "u32 index = "
                                              \o ToString(found[1])
                                              \o "; return bpf_redirect(&index, 0);"],
                          n - 1)

\* __format_helpers(code), for a code without comments and dp_log calls.
FormatHelpers(code) ==
    LET out == FormatRedirects(code, Len(code)) IN
    IF out.result # "ok" THEN [op |-> "format_helpers", result |-> out.result, code |-> code]
    ELSE [op |-> "format_helpers", result |-> "ok",
          code |-> HelpersCode \o WrapperCode \o out.code]

\* finditer(r"^(BPF_TABLE|BPF_QUEUESTACK|BPF_PERF).*$", original_code, MULTILINE)
IsDeclaration(line) ==
    StartsWith(line, "BPF_TABLE") \/ StartsWith(line, "BPF_QUEUESTACK")
       \/ StartsWith(line, "BPF_PERF")

\* need_swap
NeedSwap(code) ==
    \E n \in DOMAIN code :
       /\ IsDeclaration(code[n])
       /\ Contains(code[n], "__attributes__")
       /\ Contains(Split(code[n], "__attributes__")[2], "SWAP")

\* map_name: the second argument of BPF_QUEUESTACK and BPF_PERF, the fourth of
\* BPF_TABLE.
MapNameFourth(declaration) ==
    Strip(Split(Split(declaration, ",")[4], ")")[1])

MapName(declaration) ==
    LET splitted == Split(declaration, ",") IN
    IF Contains(declaration, "BPF_Q") \/ Contains(declaration, "BPF_P")
    THEN Strip(Split(splitted[2], ")")[1])
    ELSE Strip(Split(splitted[4], ")")[1])

\* maps, a dict: the keys in insertion order with their MetricFeatures.
MapsHas(maps, map_name) == \E k \in DOMAIN maps : maps[k].name = map_name

MapsGet(maps, map_name) == maps[CHOOSE k \in DOMAIN maps : maps[k].name = map_name]

MapsPut(maps, map_name, features) ==
    IF MapsHas(maps, map_name)
    THEN [k \in DOMAIN maps |-> IF maps[k].name = map_name
                                THEN [name |-> map_name, features |-> features]
                                ELSE maps[k]]
    ELSE Append(maps, [name |-> map_name, features |-> features])

\* MetricFeatures(swap="SWAP" in tmp[1], export="EXPORT" in tmp[1], empty="EMPTY" in tmp[1])
MetricFeatures(text) ==
    [swap |-> Contains(text, "SWAP"), export |-> Contains(text, "EXPORT"),
     empty |-> Contains(text, "EMPTY")]

\* __precompile_parse, the body of the loop for one declaration: the maps, the
\* declaration left in the original code and the one put in the clone.
ParseDeclaration(declaration, maps, need_swap) ==
    LET splitted == Split(declaration, ",")
        map_name == MapName(declaration)
        has == Contains(declaration, "__attributes__")
        tmp == Split(declaration, "__attributes__")
        stripped == IF has THEN tmp[1] \o ";" ELSE declaration
        maps1 == IF has THEN MapsPut(maps, map_name, MetricFeatures(tmp[2])) ELSE maps
        change == need_swap /\ (~MapsHas(maps1, map_name)
                                \/ ~MapsGet(maps1, map_name).features.swap)
        first == Split(splitted[1], "(")
        prefix_decl == first[1]
        map_type == first[2]
        plain == Count(prefix_decl, "_") <= 1
        new_decl == IF ~change THEN stripped
                    ELSE IF plain
                    THEN IF ~Contains(map_type, "extern")
                         THEN Replace(stripped, map_type, "\"extern\"") ELSE stripped
                    ELSE Replace(Replace(stripped, map_type, "\"extern\""), prefix_decl,
                                 Join(SubSeq(Split(prefix_decl, "_"), 1, 2), "_"))
        orig_decl == IF change /\ plain /\ ~Contains(map_type, "extern")
                     THEN SubSeq(stripped, 1, Len(prefix_decl)) \o "_SHARED"
                          \o SubSeq(stripped, Len(prefix_decl) + 1, Len(stripped))
                     ELSE stripped
    IN [maps |-> maps1, orig_decl |-> orig_decl, new_decl |-> new_decl]

\* __precompile_parse, the loop over the declarations from the last to the first.
RECURSIVE ParseDeclarations(_, _, _, _, _)
ParseDeclarations(original_code, cloned_code, maps, need_swap, n) ==
    IF n = 0 THEN [original_code |-> original_code, cloned_code |-> cloned_code, maps |-> maps]
    ELSE IF ~IsDeclaration(original_code[n])
    THEN ParseDeclarations(original_code, cloned_code, maps, need_swap, n - 1)
    ELSE LET d == ParseDeclaration(original_code[n], maps, need_swap)
         IN ParseDeclarations([original_code EXCEPT ![n] = d.orig_decl],
                              IF cloned_code # NoCode
                              THEN [cloned_code EXCEPT ![n] = d.new_decl] ELSE cloned_code,
                              d.maps, need_swap, n - 1)

\* __precompile_parse, the last loop: cloned_code.replace(map_name, f"{map_name}_1")
\* for the maps with swap, in the order of the dict.
RECURSIVE RenameSwapped(_, _)
RenameSwapped(cloned_code, maps) ==
    IF maps = << >> THEN cloned_code
    ELSE IF ~Head(maps).features.swap THEN RenameSwapped(cloned_code, Tail(maps))
    ELSE RenameSwapped([n \in DOMAIN cloned_code |->
                           Replace(cloned_code[n], Head(maps).name, Head(maps).name \o "_1")],
                       Tail(maps))

\* __precompile_parse(original_code)
PrecompileParse(original_code) ==
    LET need_swap == NeedSwap(original_code)
        out == ParseDeclarations(original_code,
                                 IF need_swap THEN original_code ELSE NoCode,
                                 << >>, need_swap, Len(original_code))
    IN [op |-> "precompile_parse", original_code |-> out.original_code,
        cloned_code |-> IF need_swap THEN RenameSwapped(out.cloned_code, out.maps)
                        ELSE out.cloned_code,
        features |-> out.maps]

\* The text of a statement.
RenderStatement(st) ==
    IF st.redirect THEN "    return REDIRECT(" \o st.ifname \o ");" ELSE "    return PASS;"

RenderStatements(src) == [n \in DOMAIN src |-> RenderStatement(src[n])]

\* The text of a map declaration.
RenderKeywords(keywords) ==
    Join(SelectSeq(<<"SWAP", "EXPORT", "EMPTY">>, LAMBDA k : k \in keywords), "|")

RenderDeclaration(d) ==
    (CASE d.macro = "BPF_TABLE" -> "BPF_TABLE(\"hash\", u32, u64, " \o d.name \o ", 1024)"
       [] d.macro = "BPF_QUEUESTACK" -> "BPF_QUEUESTACK(\"queue\", " \o d.name \o ", u64, 10, 0)"
       [] d.macro = "BPF_PERF" -> "BPF_PERF(\"perf_output\", " \o d.name \o ")")
       \o (IF d.attributes THEN " __attributes__(" \o RenderKeywords(d.keywords) \o ");"
           ELSE ";")

RenderDeclarations(src) == [n \in DOMAIN src |-> RenderDeclaration(src[n])]

\* The sources behind the names in Codes: S3 of the specification, and a
\* source without map declarations.
SourceOf(code) ==
    IF code = "swap"
    THEN <<"BPF_TABLE(\"hash\", u32, u64, counters, 1024) __attributes__(SWAP|EXPORT);",
           "BPF_TABLE(\"array\", u32, u64, totals, 1) __attributes__(EXPORT);">>
    ELSE << >>

\* compile_hook: `if swap_code:`, for the sources of Codes.
SwapCodes == {code \in {"plain", "swap"} : PrecompileParse(SourceOf(code)).cloned_code # NoCode}

HasSwapCode(code) == code \in SwapCodes

\* __ebpf_values: egress is always TC.
HookOf(program_type, mode) ==
    IF program_type = "egress" \/ mode = "tc"
    THEN IF program_type = "egress" THEN "egress_tc" ELSE "ingress_tc"
    ELSE "ingress_xdp"

\* __ebpf_values without its first branch.
EbpfValuesAsked(mode, flags, program_type) ==
    IF mode = "tc"
    THEN [mode |-> "tc", flags |-> 0, parent |-> "ffff:fff2"]
    ELSE [mode |-> "xdp", flags |-> flags, parent |-> "None"]

\* __ebpf_values: the mode, the flags and the parent that are used. TC and
\* egress programs get the flags 0.
EbpfValues(mode, flags, program_type) ==
    IF program_type = "egress"
    THEN [mode |-> "tc", flags |-> 0, parent |-> "ffff:fff3"]
    ELSE IF mode = "tc"
    THEN [mode |-> "tc", flags |-> 0, parent |-> "ffff:fff2"]
    ELSE [mode |-> "xdp", flags |-> flags, parent |-> "None"]

\* The mode of the programs of a hook (tmp.mode in remove_hook).
ModeOf(h) == IF h \in {"ingress_tc", "egress_tc"} THEN "tc" ELSE "xdp"

\* remove_hook: type_of_interest, from the program_type of the caller and the
\* mode of the program (of _programs[0] for a SwapStateCompile).
TypeOfInterest(program_type, program) ==
    IF program.mode = "tc" THEN program_type \o "_tc" ELSE program_type \o "_xdp"

\* The program_type of the compile_hook calls that record into hook h.
ProgramTypeOf(h) == IF h \in {"ingress_xdp", "ingress_tc"} THEN "ingress" ELSE "egress"

\* InterfaceHolder(interface, flags, offload_device): the hook slots are the
\* shared HookTypeHolder objects, see Hooks.
InterfaceHolder(idx, flags) == [idx |-> idx, flags |-> flags]

\* idx in self.__interfaces_programs
Registered(registry, idx) == \E k \in 1..Len(registry) : registry[k].idx = idx

\* self.__interfaces_programs[idx]
HolderOf(registry, idx) == registry[CHOOSE k \in 1..Len(registry) : registry[k].idx = idx]

\* del self.__interfaces_programs[idx]
Unregister(registry, idx) == SelectSeq(registry, LAMBDA ih : ih.idx # idx)

\* remove_hook: the hook of a program, from its mode.
SiblingOf(h) ==
    CASE h = "ingress_tc" -> "egress_tc"
      [] h = "egress_tc" -> "ingress_tc"
      [] h = "ingress_xdp" -> "egress_xdp"
      [] h = "egress_xdp" -> "ingress_xdp"

\* program_chain.ids.pop(0)
PopIdLast(ids) == [id |-> ids[Len(ids)], rest |-> SubSeq(ids, 1, Len(ids) - 1)]

PopId(ids) == [id |-> Head(ids), rest |-> Tail(ids)]

\* target.ids.append(program_id)
FreeIdFront(ids, id) == <<id>> \o ids

FreeId(ids, id) == Append(ids, id)

\* programs[0][next][programs[-1].program_id] = ret.f.fd
LinkTail(map, programs, fd) == MapSet(map, programs[Len(programs)].program_id, fd)

\* remove_hook, the program at index is the tail: delete the predecessor's entry.
UnlinkTailKeep(map, programs, index) == map

UnlinkTail(map, programs, index) == MapDel(map, programs[index - 1].program_id)

\* remove_hook, the program at index is not the tail: the predecessor calls the
\* successor, the removed program's entry is deleted.
UnlinkInner(map, programs, index) ==
    MapDel(MapSet(map, programs[index - 1].program_id, programs[index + 1].fds[1]),
           programs[index].program_id)

RemoveAt(s, i) == SubSeq(s, 1, i - 1) \o SubSeq(s, i + 1, Len(s))

\* SwapStateCompile.trigger_read: the new __index.
NextIndex(index) == (index + 1) % 2

\* SwapStateCompile.__getitem__: the half that is read and the map name used.
\* features holds every map declared with __attributes__.
Features(code) == IF code = "swap" THEN {"counters", "totals"} ELSE {}

SwapMaps(code) == IF code = "swap" THEN {"counters"} ELSE {}

GetItem(pair, key) ==
    LET index_to_read == IF pair.index = 0 THEN 1 ELSE 0
    IN [half |-> index_to_read,
        name |-> IF index_to_read = 1 /\ key \in Features(pair.code)
                 THEN <<key, "_1">> ELSE <<key>>]

\* __precompile_parse: in the clone only the SWAP maps are renamed.
MapsOfHalf(code, half) ==
    IF half = 0 THEN {<<m>> : m \in Features(code)}
    ELSE {<<m, "_1">> : m \in SwapMaps(code)} \cup {<<m>> : m \in Features(code) \ SwapMaps(code)}

\* The Program objects: per fd, Program.__is_destroyed (destroyed) and the
\* number of times bpf.cleanup() was executed (released); the fds[1] of the
\* SwapStateCompile objects whose __is_destroyed is set (pairs); the fds of the
\* Programs that were inserted in a hook list (attached) and of those the
\* garbage collector has finalized (finalized).
NoHeap == [destroyed |-> << >>, released |-> << >>, pairs |-> {}, attached |-> {},
           finalized |-> {}]

\* Program.__post_init__ for the programs loaded since: __is_destroyed = False.
Allocate(hp, n) ==
    [hp EXCEPT !.destroyed = @ \o [k \in 1..(n - Len(@)) |-> FALSE],
               !.released = @ \o [k \in 1..(n - Len(@)) |-> 0]]

\* Program.__del__
ProgramDelAgain(hp, fd) ==
    [hp EXCEPT !.destroyed[fd] = TRUE, !.released[fd] = @ + 1]

ProgramDel(hp, fd) ==
    IF hp.destroyed[fd] THEN hp
    ELSE [hp EXCEPT !.destroyed[fd] = TRUE, !.released[fd] = @ + 1]

\* SwapStateCompile.__del__
SwapDel(hp, fds) ==
    IF fds[1] \in hp.pairs THEN hp
    ELSE ProgramDel(ProgramDel([hp EXCEPT !.pairs = @ \cup {fds[1]}], fds[1]), fds[2])

\* x.__del__() for an element x of a hook list.
ObjectDel(hp, x) == IF x.swap THEN SwapDel(hp, x.fds) ELSE ProgramDel(hp, x.fds[1])

\* [x.__del__() for x in reversed(programs)]
RECURSIVE DelReversed(_, _)
DelReversed(hp, programs) ==
    IF programs = << >> THEN hp
    ELSE DelReversed(ObjectDel(hp, programs[Len(programs)]),
                     SubSeq(programs, 1, Len(programs) - 1))

\* The fds of the Programs in a hook list.
FdsOf(programs) == UNION {{programs[k].fds[j] : j \in DOMAIN programs[k].fds} :
                          k \in DOMAIN programs}

----------------------------------------------------------------------------
\* Threads and locks.

\* threading.RLock(): not owned.
Unlocked == [owner |-> 0, count |-> 0]

\* RLock.acquire() by thread t returns at once: the lock is free or t owns it.
CanAcquireFree(l, t) == l.owner = 0

CanAcquire(l, t) == l.owner = 0 \/ l.owner = t

\* `with lock:` entered by thread t.
AcquireNot(l, t) == l

Acquire(l, t) == [owner |-> t, count |-> l.count + 1]

\* `with lock:` left by thread t, normally or by an exception.
Release(l, t) ==
    IF l.owner # t THEN l
    ELSE IF l.count = 1 THEN Unlocked
    ELSE [l EXCEPT !.count = @ - 1]

\* A thread that is in no call of the EbpfCompiler. A thread in a call keeps
\* the local variables of the call: the arguments, idx, the values of
\* __ebpf_values, flags, whether idx was found in the registry, the hook, the
\* code, the fd of the pivot, the program to remove, and for __del__ the position of the iteration over the
\* registry and the size of the registry when the iteration began.
Idle ==
    [pc |-> "idle", program_type |-> "ingress", idx |-> 0,
     vals |-> EbpfValues("tc", 0, "ingress"), flags |-> 0, known |-> FALSE,
     h |-> "ingress_tc", code |-> "plain", program |-> NewProgram(0, 0, "tc", 0, "pivot", 0),
     k |-> 0, used |-> 0, fd |-> 0]

----------------------------------------------------------------------------
\* State.

Snapshot(h) ==
    [programs |-> holder[h].programs, ids |-> holder[h].ids,
     map |-> next_map[h], registry |-> interfaces_programs]

\* Singleton._instance: None, or the EbpfCompiler object with its __is_destroyed.
NoInstance == [made |-> FALSE, is_destroyed |-> FALSE]

LiveInstance == [made |-> TRUE, is_destroyed |-> FALSE]

\* The object whose __init__ found the sentinel: __is_destroyed is set before
\* exit(err).
RefusedInstanceLive == [made |-> TRUE, is_destroyed |-> FALSE]

RefusedInstance == [made |-> TRUE, is_destroyed |-> TRUE]

\* No interface is registered, nothing is attached.
InitHooks ==
    /\ interfaces_programs = << >>
    /\ holder = [h \in Hooks |-> HookTypeHolder]
    /\ next_map = [h \in Hooks |-> NoChainMap]
    /\ loaded = << >>
    /\ ncalls = 0
    /\ nremoves = 0
    /\ nfaults = 0
    /\ handed = << >>
    /\ returned = << >>
    /\ pre = [programs |-> <<>>, ids |-> HookTypeHolder.ids, map |-> << >>, registry |-> << >>]
    /\ request = [program_type |-> "ingress", interface |-> "eth0", idx |-> 0, mode |-> "tc",
                  flags |-> 0]
    /\ clsact = << >>
    /\ xdp = << >>
    /\ running = [p \in Procs |-> TRUE]
    /\ garbage = [p \in Procs |-> << >>]
    /\ heap = NoHeap
    /\ thread = [t \in Threads |-> Idle]
    /\ lock = [h \in Hooks |-> Unlocked]
    /\ dispatcher = [polling |-> TRUE, seen |-> 0, log |-> << >>]
    /\ probes = [plugin_name \in PluginsToLoad |-> << >>]
    /\ clusters = << >>
    /\ controller_programs = [ingress |-> NoHookPrograms, egress |-> NoHookPrograms]
    /\ call = [op |-> "none", plugin_name |-> "none", probe_name |-> "none",
               cluster_name |-> "none", live |-> {}]

\* The state after EbpfCompiler(...) has returned in process 1, called with
\* callbacks (so that the polling thread runs).
InitController ==
    /\ InitHooks
    /\ last = [op |-> "EbpfCompiler", result |-> "ok", proc |-> 1, hook |-> "ingress_tc",
               program_id |-> 0,
               prev |-> [op |-> "none", result |-> "ok", program_id |-> 0]]
    /\ sentinel = TRUE
    /\ instance = [p \in Procs |-> IF p = 1 THEN LiveInstance ELSE NoInstance]
    /\ exit_hooks = [p \in Procs |-> IF p = 1 THEN 1 ELSE 0]
    /\ startup = [p \in Procs |-> IF p = 1 THEN 1 ELSE 0]
    /\ poll_threads = [p \in Procs |-> IF p = 1 THEN 1 ELSE 0]
    /\ nconstructs = 1

\* The plugins as their constructors leave them.
InitPlugins ==
    /\ firewall = NewFirewall(MaxRules)
    /\ mitigator = NewMitigator(MaxRules)
    /\ rule_call = NoRuleCall

\* No source is being rewritten.
Init ==
    /\ InitController
    /\ InitPlugins
    /\ source = << >>
    /\ output = NoOutput

\* The state before any controller process has called EbpfCompiler(...).
InitLife ==
    /\ InitPlugins
    /\ source = << >>
    /\ output = NoOutput
    /\ InitHooks
    /\ last = [op |-> "none", result |-> "ok", proc |-> 1, hook |-> "ingress_tc",
               program_id |-> 0,
               prev |-> [op |-> "none", result |-> "ok", program_id |-> 0]]
    /\ sentinel = FALSE
    /\ instance = [p \in Procs |-> NoInstance]
    /\ exit_hooks = [p \in Procs |-> 0]
    /\ startup = [p \in Procs |-> 0]
    /\ poll_threads = [p \in Procs |-> 0]
    /\ nconstructs = 0

\* The state a call leaves behind.
LeaveDel(op, result, h, program_id, programs, ids, map, registry, progs, kernel, hp) ==
    /\ heap' = [Allocate(hp, Len(progs)) EXCEPT !.attached = @ \cup FdsOf(programs)]
    /\ UNCHANGED <<textvars, appvars, dispatcher>>
    /\ clsact' = kernel.clsact
    /\ xdp' = kernel.xdp
    /\ UNCHANGED lifevars
    /\ holder' = [holder EXCEPT ![h] = [programs |-> programs, ids |-> ids]]
    /\ next_map' = [next_map EXCEPT ![h] = map]
    /\ interfaces_programs' = registry
    /\ loaded' = progs
    /\ handed' = IF op = "compile_hook" /\ program_id # 0
                 THEN Append(handed, program_id) ELSE handed
    /\ returned' = IF op = "remove_hook" /\ program_id # 0
                   THEN Append(returned, program_id) ELSE returned
    /\ last' = [op |-> op, result |-> result, proc |-> 1, hook |-> h,
                program_id |-> program_id,
                prev |-> [op |-> last.op, result |-> last.result,
                          program_id |-> last.program_id]]
    /\ pre' = Snapshot(h)

\* The state a call leaves behind when it destroys no Program.
Leave(op, result, h, program_id, programs, ids, map, registry, progs, kernel) ==
    LeaveDel(op, result, h, program_id, programs, ids, map, registry, progs, kernel, heap)

\* compile_hook, the block under program_chain.lock: registry is the registry
\* as it is when the block runs, flags1 the flags the caller has settled on.
CompileLocked(program_type, idx, vals, flags1, code, fault, registry) ==
    LET h == HookOf(program_type, vals.mode)
        chain == holder[h]
        inject == chain.programs = <<>>
        kernel == [clsact |-> clsact, xdp |-> xdp]
        \* __inject_pivot
        pivotFd == Len(loaded) + 1
        add_qdisc == /\ inject
                     /\ vals.mode = "tc"
                     /\ holder["ingress_tc"].programs = <<>>
                     /\ holder["egress_tc"].programs = <<>>
        qdisc_exists == add_qdisc /\ idx \in DOMAIN clsact
        clsact1 == IF add_qdisc /\ ~qdisc_exists THEN MapSet(clsact, idx, {}) ELSE clsact
        no_qdisc == inject /\ vals.mode = "tc" /\ idx \notin DOMAIN clsact1
        kernel1 == [clsact |-> clsact1, xdp |-> xdp]
        kernel2 == IF ~inject THEN kernel
                   ELSE IF vals.mode = "xdp"
                   THEN [clsact |-> clsact, xdp |-> MapSet(xdp, idx, flags1)]
                   ELSE IF no_qdisc THEN kernel1
                   ELSE [clsact |-> [clsact1 EXCEPT ![idx] = @ \cup {vals.parent}], xdp |-> xdp]
        programs1 == IF inject THEN <<NewProgram(0, idx, vals.mode, flags1, "pivot", pivotFd)>>
                     ELSE chain.programs
        map1 == IF inject THEN PivotChainMap ELSE next_map[h]
        loaded1 == IF inject THEN Append(loaded, 0) ELSE loaded
    IN
    /\ fault \in {"pivot_compile", "pivot_attach"} => inject
    /\ fault = "pivot_attach" => ~qdisc_exists /\ ~no_qdisc
    /\ fault = "swap_compile" => code = "swap"
    /\ IF fault = "pivot_compile"
       THEN Leave("compile_hook", "PivotCompilationFailed", h, 0,
                  chain.programs, chain.ids, next_map[h], registry, loaded, kernel)
       ELSE IF inject /\ ~Registered(registry, idx)
       THEN Leave("compile_hook", "KeyError", h, 0,
                  chain.programs, chain.ids, next_map[h], registry, loaded1, kernel)
       ELSE IF qdisc_exists \/ no_qdisc
       THEN Leave("compile_hook", "NetlinkError", h, 0,
                  chain.programs, chain.ids, next_map[h], registry, loaded1, kernel1)
       ELSE IF fault = "pivot_attach"
       THEN Leave("compile_hook", "AttachFailed", h, 0,
                  chain.programs, chain.ids, next_map[h], registry, loaded1, kernel1)
       ELSE IF chain.ids = <<>>
       THEN Leave("compile_hook", "IndexError", h, 0,
                  programs1, chain.ids, map1, registry, loaded1, kernel2)
       ELSE
         LET popped == PopId(chain.ids)
             program_id == popped.id
             fd == Len(loaded1) + 1
             ret == NewProgram(program_id, idx, vals.mode, flags1, code, fd)
             loaded2 == Append(loaded1, program_id)
             map2 == LinkTail(map1, programs1, fd)
         IN IF fault = "rewrite"
            THEN Leave("compile_hook", "UnknownInterface", h, program_id,
                       programs1, popped.rest, map1, registry, loaded1, kernel2)
            ELSE IF fault = "compile"
            THEN Leave("compile_hook", "CompilationFailed", h, program_id,
                       programs1, popped.rest, map1, registry, loaded1, kernel2)
            ELSE IF fault = "swap_compile"
            THEN Leave("compile_hook", "CompilationFailed", h, program_id,
                       programs1, popped.rest, map2, registry, loaded2, kernel2)
            ELSE IF HasSwapCode(code)
            THEN Leave("compile_hook", "ok", h, program_id,
                       Append(programs1, SwapStateCompile(ret, fd + 1)), popped.rest, map2,
                       registry, Append(loaded2, program_id), kernel2)
            ELSE Leave("compile_hook", "ok", h, program_id,
                       Append(programs1, ret), popped.rest, map2, registry, loaded2, kernel2)

\* compile_hook from the call of __ebpf_values on, for an interface that has
\* resolved to idx.
CompileResolved(program_type, interface, idx, mode, flags, code, fault) ==
    LET vals == EbpfValues(mode, flags, program_type)
        known == Registered(interfaces_programs, idx)
        registry == IF known THEN interfaces_programs
                    ELSE Append(interfaces_programs, InterfaceHolder(idx, vals.flags))
        flags1 == IF known /\ program_type = "ingress"
                  THEN HolderOf(interfaces_programs, idx).flags ELSE vals.flags
    IN
    /\ ncalls' = ncalls + 1
    /\ nfaults' = IF fault = "none" THEN nfaults ELSE nfaults + 1
    /\ request' = [program_type |-> program_type, interface |-> interface, idx |-> idx,
                   mode |-> mode, flags |-> flags]
    /\ UNCHANGED <<nremoves, threadvars>>
    /\ CompileLocked(program_type, idx, vals, flags1, code, fault, registry)

\* compile_hook(program_type, code, interface, mode, flags, ...): the lookup
\* of the interface comes first, IndexError becomes UnknownInterfaceException.
CompileHookOn(program_type, interface, mode, flags, code, fault) ==
    LET found == LinkLookup(interface)
        h == HookOf(program_type, mode)
    IN IF found = << >>
       THEN /\ fault = "none"
            /\ ncalls' = ncalls + 1
            /\ request' = [program_type |-> program_type, interface |-> interface, idx |-> 0,
                           mode |-> mode, flags |-> flags]
            /\ UNCHANGED <<nremoves, nfaults, threadvars>>
            /\ Leave("compile_hook", "UnknownInterface", h, 0, holder[h].programs,
                     holder[h].ids, next_map[h], interfaces_programs, loaded,
                     [clsact |-> clsact, xdp |-> xdp])
       ELSE CompileResolved(program_type, interface, found[1], mode, flags, code, fault)

\* compile_hook called with the name of the link idx.
CompileHook(program_type, idx, mode, flags, code, fault) ==
    CompileHookOn(program_type, Host[idx], mode, flags, code, fault)

\* remove_hook, the block under target.lock, for the program of the caller.
RemoveLocked(h, program) ==
    LET target == holder[h]
        index == IndexOf(target.programs, program)
        removed == target.programs[index]
        ids1 == FreeId(target.ids, removed.program_id)
        map == next_map[h]
        kernel == [clsact |-> clsact, xdp |-> xdp]
    IN IF index = 0
       THEN Leave("remove_hook", "ValueError", h, 0,
                  target.programs, target.ids, map, interfaces_programs, loaded, kernel)
       ELSE IF Len(target.programs) = 2
       THEN IF ~Registered(interfaces_programs, program.idx)
            THEN LeaveDel("remove_hook", "KeyError", h, removed.program_id,
                          <<>>, ids1, NoChainMap, interfaces_programs, loaded, kernel,
                          DelReversed(heap, target.programs))
            ELSE IF holder[SiblingOf(h)].programs # <<>>
            THEN LeaveDel("remove_hook", "ok", h, removed.program_id,
                          <<>>, ids1, NoChainMap, interfaces_programs, loaded, kernel,
                          DelReversed(heap, target.programs))
            ELSE IF ModeOf(h) = "tc" /\ program.idx \notin DOMAIN clsact
            THEN LeaveDel("remove_hook", "NetlinkError", h, removed.program_id,
                          <<>>, ids1, NoChainMap, interfaces_programs, loaded, kernel,
                          DelReversed(heap, target.programs))
            ELSE LeaveDel("remove_hook", "ok", h, removed.program_id,
                          <<>>, ids1, NoChainMap,
                          Unregister(interfaces_programs, program.idx), loaded,
                          IF ModeOf(h) = "tc"
                          THEN [clsact |-> MapDel(clsact, program.idx), xdp |-> xdp]
                          ELSE [clsact |-> clsact, xdp |-> MapDel(xdp, program.idx)],
                          DelReversed(heap, target.programs))
       ELSE IF index # Len(target.programs)
       THEN IF target.programs[index + 1].swap
            THEN Leave("remove_hook", "AttributeError", h, removed.program_id,
                       target.programs, ids1, map, interfaces_programs, loaded, kernel)
            ELSE IF removed.program_id \notin
                      DOMAIN MapSet(map, target.programs[index - 1].program_id, 0)
            THEN Leave("remove_hook", "KeyError", h, removed.program_id,
                       target.programs, ids1,
                       MapSet(map, target.programs[index - 1].program_id,
                              target.programs[index + 1].fds[1]),
                       interfaces_programs, loaded, kernel)
            ELSE LeaveDel("remove_hook", "ok", h, removed.program_id,
                          RemoveAt(target.programs, index), ids1,
                          UnlinkInner(map, target.programs, index),
                          interfaces_programs, loaded, kernel, ObjectDel(heap, removed))
       ELSE IF target.programs[index - 1].program_id \notin DOMAIN map
            THEN Leave("remove_hook", "KeyError", h, removed.program_id,
                       target.programs, ids1, map, interfaces_programs, loaded, kernel)
            ELSE LeaveDel("remove_hook", "ok", h, removed.program_id,
                          RemoveAt(target.programs, index), ids1,
                          UnlinkTail(map, target.programs, index),
                          interfaces_programs, loaded, kernel, ObjectDel(heap, removed))

\* remove_hook(program_type, program) for the program the caller got from
\* compile_hook and that is recorded at position pos of hook h.
RemoveHook(h, pos) ==
    LET target == holder[h]
        program == target.programs[pos]
    IN
    /\ pos \in 2..Len(target.programs)
    /\ nremoves' = nremoves + 1
    /\ UNCHANGED <<ncalls, nfaults, request, threadvars>>
    /\ IF ~Registered(interfaces_programs, program.idx)
       THEN Leave("remove_hook", "KeyError", h, 0,
                  target.programs, target.ids, next_map[h], interfaces_programs, loaded,
                  [clsact |-> clsact, xdp |-> xdp])
       ELSE RemoveLocked(h, program)

\* SwapStateCompile.trigger_read on the pair recorded at position pos of hook h:
\* __index is flipped, then self.__chain_map (mangled to
\* _SwapStateCompile__chain_map, an attribute that is never set: the field is
\* _chain_map) raises AttributeError before the dispatch map is written.
TriggerRead(h, pos) ==
    LET target == holder[h]
        pair == target.programs[pos]
    IN
    /\ pos \in 2..Len(target.programs)
    /\ pair.swap
    /\ UNCHANGED <<ncalls, nremoves, nfaults, request, threadvars>>
    /\ Leave("trigger_read", "AttributeError", h, pair.program_id,
             [target.programs EXCEPT ![pos].index = NextIndex(pair.index)],
             target.ids, next_map[h], interfaces_programs, loaded,
             [clsact |-> clsact, xdp |-> xdp])

\* EbpfCompiler().patch_hook(program_type, program, code, cflags), as a plugin
\* calls it for the probe recorded at position pos of hook h: EbpfCompiler and
\* its metaclass define no attribute patch_hook, the lookup raises
\* AttributeError before anything is done.
PatchHook(h, pos, code) ==
    LET target == holder[h] IN
    /\ pos \in 2..Len(target.programs)
    /\ UNCHANGED <<ncalls, nremoves, nfaults, request, threadvars>>
    /\ Leave("patch_hook", "AttributeError", h, target.programs[pos].program_id,
             target.programs, target.ids, next_map[h], interfaces_programs, loaded,
             [clsact |-> clsact, xdp |-> xdp])

\* The garbage collector finalizes the Program with the given fd, once it is
\* in no hook list any more and the caller has dropped it: Program.__del__.
Finalize(fd) ==
    /\ fd \in 1..Len(loaded)
    /\ fd \notin heap.finalized
    /\ \A h \in Hooks : fd \notin FdsOf(holder[h].programs)
    /\ heap' = [ProgramDel(heap, fd) EXCEPT !.finalized = @ \cup {fd}]
    /\ last' = [op |-> "Program.__del__", result |-> "ok", proc |-> 1, hook |-> last.hook,
                program_id |-> loaded[fd],
                prev |-> [op |-> last.op, result |-> last.result,
                          program_id |-> last.program_id]]
    /\ UNCHANGED <<chainvars, clsact, xdp, lifevars, threadvars, textvars, appvars, dispatcher>>

\* __format_helpers applied to the source.
Rewrite ==
    /\ output.op = "none"
    /\ output' = FormatHelpers(RenderStatements(source))
    /\ UNCHANGED <<hookvars, lifevars, threadvars, last, source, appvars, dispatcher>>

\* __precompile_parse applied to the source, and what compile_hook makes of
\* the result: a SwapStateCompile when there is a swap code.
Parse ==
    LET out == PrecompileParse(RenderDeclarations(source)) IN
    /\ output.op = "none"
    /\ output' = [op |-> out.op, original_code |-> out.original_code,
                  cloned_code |-> out.cloned_code, features |-> out.features,
                  pair |-> out.cloned_code # NoCode]
    /\ UNCHANGED <<hookvars, lifevars, threadvars, last, source, appvars, dispatcher>>

\* The registry of the EbpfCompiler of a process: process 2 attaches no probe.
RegistryOf(p) == IF p = 1 THEN interfaces_programs ELSE << >>

\* Singleton.__call__: `if not cls._instance`.
HasInstanceNever(inst) == FALSE

HasInstance(inst) == inst.made

\* EbpfCompiler.__del__: `if self.__is_destroyed: return`.
DestroyedNever(self) == FALSE

Destroyed(self) == self.is_destroyed

\* EbpfCompiler.__del__, the loop over the registry, in insertion order:
\* remove_xdp where an XDP slot is not empty, tc del clsact where a TC slot is
\* not empty. Deleting a qdisc that does not exist raises NetlinkError and
\* ends the loop.
RECURSIVE DelWalk(_, _, _)
DelWalk(registry, x, c) ==
    IF registry = << >> THEN [xdp |-> x, clsact |-> c, result |-> "ok"]
    ELSE LET idx == Head(registry).idx
             x1 == IF holder["ingress_xdp"].programs # <<>> \/ holder["egress_xdp"].programs # <<>>
                   THEN MapDel(x, idx) ELSE x
         IN IF holder["ingress_tc"].programs # <<>> \/ holder["egress_tc"].programs # <<>>
            THEN IF idx \in DOMAIN c
                 THEN DelWalk(Tail(registry), x1, MapDel(c, idx))
                 ELSE [xdp |-> x1, clsact |-> c, result |-> "NetlinkError"]
            ELSE DelWalk(Tail(registry), x1, c)

\* EbpfCompiler.__del__ on the object self with the given registry, run with
\* the sentinel and the kernel attachments as they are in k: what it leaves.
Del(self, registry, k) ==
    IF Destroyed(self)
    THEN [self |-> self, sentinel |-> k.sentinel, xdp |-> k.xdp, clsact |-> k.clsact,
          result |-> "noop"]
    ELSE IF ~k.sentinel
    THEN [self |-> [self EXCEPT !.is_destroyed = TRUE], sentinel |-> FALSE,
          xdp |-> k.xdp, clsact |-> k.clsact, result |-> "NetlinkError"]
    ELSE LET w == DelWalk(registry, k.xdp, k.clsact)
         IN [self |-> [self EXCEPT !.is_destroyed = TRUE], sentinel |-> FALSE,
             xdp |-> w.xdp, clsact |-> w.clsact, result |-> w.result]

Kernel == [sentinel |-> sentinel, xdp |-> xdp, clsact |-> clsact]

\* The finalization of the objects in objs, one after the other.
RECURSIVE DelAll(_, _)
DelAll(objs, k) ==
    IF objs = << >> THEN k
    ELSE LET out == Del(Head(objs), << >>, k)
         IN DelAll(Tail(objs), [sentinel |-> out.sentinel, xdp |-> out.xdp,
                                clsact |-> out.clsact])

\* The state a call of the life cycle leaves behind, but for the dispatcher.
LeaveCallback(op, result, p) ==
    /\ UNCHANGED <<threadvars, textvars, appvars>>
    /\ last' = [op |-> op, result |-> result, proc |-> p, hook |-> last.hook,
             program_id |-> 0,
             prev |-> [op |-> last.op, result |-> last.result,
                       program_id |-> last.program_id]]

LeaveLife(op, result, p) ==
    /\ LeaveCallback(op, result, p)
    /\ UNCHANGED dispatcher

\* Controller.__log_function on a record of the log buffer: decode() raises on
\* bad UTF-8, the % formatting raises on a bad format, everything else is
\* logged, whatever plugin_id and probe_id the metadata carry.
LogFunction(record) ==
    CASE record.content = "bad_utf8" -> "UnicodeDecodeError"
      [] record.content = "bad_format" -> "ValueError"
      [] OTHER -> "logged"

\* perf_buffer_poll hands a record of the log buffer to the callback. What
\* the callback raises either is swallowed by the binding (propagates FALSE)
\* or comes out of perf_buffer_poll and ends the loop of the polling thread.
Dispatch(p, record, propagates) ==
    LET outcome == LogFunction(record) IN
    /\ running[p]
    /\ poll_threads[p] > 0
    /\ dispatcher.polling
    /\ outcome = "logged" => ~propagates
    /\ dispatcher' = [polling |-> ~propagates,
                      seen |-> dispatcher.seen + 1,
                      log |-> IF outcome = "logged" THEN Append(dispatcher.log, record)
                              ELSE dispatcher.log]
    /\ LeaveCallback("callback", outcome, p)
    /\ UNCHANGED <<hookvars, lifevars>>

\* EbpfCompiler(log_level, packet_cp_callback, log_cp_callback) in process p:
\* Singleton.__call__ and, when there is no instance yet, EbpfCompiler.__init__.
Construct(p, callbacks, fault) ==
    /\ running[p]
    /\ nconstructs' = nconstructs + 1
    /\ UNCHANGED <<hookvars, running>>
    /\ IF HasInstance(instance[p])
       THEN /\ fault = "none"
            /\ LeaveLife("EbpfCompiler", "instance", p)
            /\ UNCHANGED <<sentinel, instance, garbage, exit_hooks, startup, poll_threads>>
       ELSE IF sentinel
       THEN /\ fault = "none"
            /\ garbage' = [garbage EXCEPT ![p] = Append(@, RefusedInstance)]
            /\ LeaveLife("EbpfCompiler", "exit17", p)
            /\ UNCHANGED <<sentinel, instance, exit_hooks, startup, poll_threads>>
       ELSE IF fault = "startup_compile"
       THEN /\ sentinel' = TRUE
            /\ garbage' = [garbage EXCEPT ![p] = Append(@, LiveInstance)]
            /\ LeaveLife("EbpfCompiler", "Exception", p)
            /\ UNCHANGED <<instance, exit_hooks, startup, poll_threads>>
       ELSE /\ sentinel' = TRUE
            /\ startup' = [startup EXCEPT ![p] = @ + 1]
            /\ poll_threads' = [poll_threads EXCEPT ![p] = IF callbacks THEN @ + 1 ELSE @]
            /\ exit_hooks' = [exit_hooks EXCEPT ![p] = @ + 1]
            /\ instance' = [instance EXCEPT ![p] = LiveInstance]
            /\ LeaveLife("EbpfCompiler", "ok", p)
            /\ UNCHANGED garbage

\* An explicit EbpfCompiler().__del__() in process p.
Teardown(p) ==
    LET out == Del(instance[p], RegistryOf(p), Kernel) IN
    /\ running[p]
    /\ instance[p].made
    /\ instance' = [instance EXCEPT ![p] = out.self]
    /\ sentinel' = out.sentinel
    /\ xdp' = out.xdp
    /\ clsact' = out.clsact
    /\ LeaveLife("__del__", out.result, p)
    /\ UNCHANGED <<chainvars, heap, garbage, exit_hooks, startup, poll_threads, running,
                   nconstructs>>

\* The finalization of the k-th unreferenced EbpfCompiler object of process p
\* (its registry is the empty one its __init__ created).
Collect(p, k) ==
    /\ running[p]
    /\ k \in 1..Len(garbage[p])
    /\ LET out == Del(garbage[p][k], << >>, Kernel) IN
       /\ sentinel' = out.sentinel
       /\ xdp' = out.xdp
       /\ clsact' = out.clsact
       /\ LeaveLife("collect", out.result, p)
    /\ garbage' = [garbage EXCEPT ![p] = RemoveAt(@, k)]
    /\ UNCHANGED <<chainvars, heap, instance, exit_hooks, startup, poll_threads, running,
                   nconstructs>>

\* Process p exits: the callbacks registered with atexit run
\* (EbpfCompiler().__del__() if EbpfCompiler() else None), the objects left are
\* finalized, the daemon polling threads end with the process.
Exit(p) ==
    LET out == IF exit_hooks[p] > 0 THEN Del(instance[p], RegistryOf(p), Kernel)
               ELSE [self |-> instance[p], sentinel |-> sentinel, xdp |-> xdp,
                     clsact |-> clsact, result |-> "ok"]
        k == DelAll(garbage[p], [sentinel |-> out.sentinel, xdp |-> out.xdp,
                                 clsact |-> out.clsact])
    IN
    /\ running[p]
    /\ running' = [running EXCEPT ![p] = FALSE]
    /\ instance' = [instance EXCEPT ![p] = out.self]
    /\ sentinel' = k.sentinel
    /\ xdp' = k.xdp
    /\ clsact' = k.clsact
    /\ garbage' = [garbage EXCEPT ![p] = << >>]
    /\ exit_hooks' = [exit_hooks EXCEPT ![p] = 0]
    /\ poll_threads' = [poll_threads EXCEPT ![p] = 0]
    /\ LeaveLife("exit", out.result, p)
    /\ UNCHANGED <<chainvars, heap, startup, nconstructs>>

\* poll(): perf_buffer_poll delivers an event and the callback given to
\* EbpfCompiler(...) is invoked.
Poll(p) ==
    /\ running[p]
    /\ poll_threads[p] > 0
    /\ LeaveLife("callback", "ok", p)
    /\ UNCHANGED <<hookvars, sentinel, instance, garbage, exit_hooks, startup, poll_threads,
                   running, nconstructs>>

----------------------------------------------------------------------------
\* Specifications.

\* One hook of one interface: every source, every fault, every removal.
Compile ==
    /\ ncalls < MaxCalls
    /\ \E code \in Codes, fault \in Faults :
          /\ fault # "none" => nfaults < MaxFaults
          /\ CompileHook("ingress", 1, "tc", 2, code, fault)

Remove ==
    /\ nremoves < MaxRemoves
    /\ \E pos \in 2..MaxCalls + 1 : RemoveHook("ingress_tc", pos)

Read == \E pos \in 2..MaxCalls + 1 : TriggerRead("ingress_tc", pos)

Next == Compile \/ Remove \/ Read

Spec == Init /\ [][Next]_vars

\* One hook of one interface, compile_hook does not fail: chains of up to four
\* probes of either kind.
CompileChain ==
    /\ ncalls < MaxCallsChain
    /\ \E code \in Codes : CompileHook("ingress", 1, "tc", 2, code, "none")

RemoveChain ==
    /\ nremoves < MaxRemovesChain
    /\ \E pos \in 2..MaxCallsChain + 1 : RemoveHook("ingress_tc", pos)

ReadChain == \E pos \in 2..MaxCallsChain + 1 : TriggerRead("ingress_tc", pos)

NextChain == CompileChain \/ RemoveChain \/ ReadChain

SpecChain == Init /\ [][NextChain]_vars

\* A chain of plain probes filled up to its capacity, with a few removals of
\* the first or the last probe.
CompileFull ==
    /\ ncalls < MaxCallsFull
    /\ CompileHook("ingress", 1, "tc", 2, "plain", "none")

RemoveFull ==
    /\ nremoves < MaxRemovesFull
    /\ \E pos \in {2, Len(holder["ingress_tc"].programs)} : RemoveHook("ingress_tc", pos)

NextFull == CompileFull \/ RemoveFull

SpecFull == Init /\ [][NextFull]_vars

\* One hook of one interface, with the Program objects: every source, the
\* faults that leave a compiled Program behind, every removal, the garbage
\* collector and the teardown of the controller.
CompileGc ==
    /\ ncalls < MaxCallsGc
    /\ \E code \in Codes, fault \in {"none", "pivot_attach", "compile", "swap_compile"} :
          /\ fault # "none" => nfaults < MaxFaultsGc
          /\ CompileHook("ingress", 1, "tc", 2, code, fault)

RemoveGc ==
    /\ nremoves < MaxRemovesGc
    /\ \E pos \in 2..MaxCallsGc + 1 : RemoveHook("ingress_tc", pos)

FinalizeGc == \E fd \in 1..(2 * MaxCallsGc + 2) : Finalize(fd)

TeardownGc == Teardown(1)

NextGc == CompileGc \/ RemoveGc \/ FinalizeGc \/ TeardownGc

SpecGc == Init /\ [][NextGc]_vars

\* One hook of one interface: probes are attached, patched and removed.
CompilePatch ==
    /\ ncalls < MaxCallsPatch
    /\ \E code \in Codes : CompileHook("ingress", 1, "tc", 2, code, "none")

RemovePatch ==
    /\ nremoves < MaxRemovesPatch
    /\ \E pos \in 2..MaxCallsPatch + 1 : RemoveHook("ingress_tc", pos)

PatchPatch ==
    \E pos \in 2..MaxCallsPatch + 1, code \in Codes : PatchHook("ingress_tc", pos, code)

NextPatch == CompilePatch \/ RemovePatch \/ PatchPatch

SpecPatch == Init /\ [][NextPatch]_vars

\* The polling thread of the controller and the records of the log buffer.
DispatchPerf ==
    /\ dispatcher.seen < MaxRecords
    /\ \E record \in Records, propagates \in BOOLEAN : Dispatch(1, record, propagates)

NextPerf == DispatchPerf

SpecPerf == Init /\ [][NextPerf]_vars

\* compile_hook called with any interface name, on any hook.
CompileLookup ==
    /\ ncalls < MaxCallsLookup
    /\ \E program_type \in {"ingress", "egress"}, interface \in Interfaces,
          mode \in {"xdp", "tc"} :
          CompileHookOn(program_type, interface, mode, 2, "plain", "none")

RemoveLookup ==
    /\ nremoves < MaxRemovesLookup
    /\ \E h \in Hooks, pos \in 2..MaxCallsLookup + 1 : RemoveHook(h, pos)

NextLookup == CompileLookup \/ RemoveLookup

SpecLookup == Init /\ [][NextLookup]_vars

\* __format_helpers on every source of up to MaxLines statements.
InitRedirect ==
    /\ InitController
    /\ InitPlugins
    /\ source \in RedirectSources
    /\ output = NoOutput

NextRedirect == Rewrite

SpecRedirect == InitRedirect /\ [][NextRedirect]_vars

\* __precompile_parse on every source of up to MaxDecls map declarations.
InitParse ==
    /\ InitController
    /\ InitPlugins
    /\ source \in ParseSources
    /\ output = NoOutput

NextParse == Parse

SpecParse == InitParse /\ [][NextParse]_vars

\* remove_hook(program_type, program) as the caller writes it: the hook is
\* worked out from the two arguments.
RemoveHookFor(program_type, program) ==
    LET h == TypeOfInterest(program_type, program) IN
    /\ nremoves' = nremoves + 1
    /\ UNCHANGED <<ncalls, nfaults, request, threadvars>>
    /\ IF ~Registered(interfaces_programs, program.idx)
       THEN Leave("remove_hook", "KeyError", h, 0,
                  holder[h].programs, holder[h].ids, next_map[h], interfaces_programs, loaded,
                  [clsact |-> clsact, xdp |-> xdp])
       ELSE RemoveLocked(h, program)

\* One interface, probes of either type asked for in either mode, with and
\* without a swapped map; a probe is removed with the program_type it was
\* compiled with.
CompileMode ==
    /\ ncalls < MaxCallsMode
    /\ \E program_type \in {"ingress", "egress"}, mode \in {"xdp", "tc"}, flags \in {2, 4},
          code \in Codes :
          CompileHook(program_type, 1, mode, flags, code, "none")

RemoveMode ==
    /\ nremoves < MaxRemovesMode
    /\ \E h \in Hooks, pos \in 2..MaxCallsMode + 1 :
          /\ pos <= Len(holder[h].programs)
          /\ RemoveHookFor(ProgramTypeOf(h), holder[h].programs[pos])

NextMode == CompileMode \/ RemoveMode

SpecMode == Init /\ [][NextMode]_vars

\* Two interfaces, every hook of each: plain probes, no call fails for a reason
\* outside the controller; the controller may be torn down at any time.
Ifaces == {1, 2}

CompileIface ==
    /\ ncalls < MaxCallsIface
    /\ \E program_type \in {"ingress", "egress"}, idx \in Ifaces, mode \in {"xdp", "tc"},
          flags \in {2, 4} :
          CompileHook(program_type, idx, mode, flags, "plain", "none")

RemoveIface ==
    /\ nremoves < MaxRemovesIface
    /\ \E h \in Hooks, pos \in 2..MaxCallsIface + 1 : RemoveHook(h, pos)

TeardownIface == Teardown(1)

NextIface == CompileIface \/ RemoveIface \/ TeardownIface

SpecIface == Init /\ [][NextIface]_vars

\* The life cycle of two controller processes; process 1 attaches and removes
\* probes on the hooks of one interface.
ConstructLife ==
    /\ nconstructs < MaxConstructs
    /\ \E p \in Procs, callbacks \in BOOLEAN, fault \in InitFaults :
          Construct(p, callbacks, fault)

TeardownLife == \E p \in Procs : Teardown(p)

CollectLife == \E p \in Procs, k \in 1..MaxConstructs : Collect(p, k)

ExitLife == \E p \in Procs : Exit(p)

PollLife == \E p \in Procs : Poll(p)

CompileLife ==
    /\ ncalls < MaxCallsLife
    /\ running[1]
    /\ instance[1].made
    /\ \E program_type \in {"ingress", "egress"}, mode \in {"xdp", "tc"} :
          CompileHook(program_type, 1, mode, 2, "plain", "none")

RemoveLife ==
    /\ nremoves < MaxRemovesLife
    /\ running[1]
    /\ instance[1].made
    /\ \E h \in Hooks, pos \in 2..MaxCallsLife + 1 : RemoveHook(h, pos)

NextLife ==
    \/ ConstructLife
    \/ TeardownLife
    \/ CollectLife
    \/ ExitLife
    \/ PollLife
    \/ CompileLife
    \/ RemoveLife

SpecLife == InitLife /\ [][NextLife]_vars

----------------------------------------------------------------------------
\* Calls of the EbpfCompiler made by several threads of process 1. A call is
\* a sequence of steps; between two steps any other thread may run. A step
\* ends where the call reads or writes the registry, or asks for a lock.

datavars == <<interfaces_programs, holder, next_map, loaded, handed, returned, pre, clsact,
              xdp, heap>>

\* The thread t goes on with the local variables r.
Goes(t, r) == thread' = [thread EXCEPT ![t] = r]

\* The thread t returns from its call, or the call raises.
Returns(t) == Goes(t, Idle)

\* compile_hook up to the test `idx not in self.__interfaces_programs`.
CallCompile(t, program_type, interface, mode, flags, code) ==
    LET found == LinkLookup(interface)
        vals == EbpfValues(mode, flags, program_type)
    IN
    /\ thread[t].pc = "idle"
    /\ found # << >>
    /\ ncalls' = ncalls + 1
    /\ request' = [program_type |-> program_type, interface |-> interface, idx |-> found[1],
                   mode |-> mode, flags |-> flags]
    /\ Goes(t, [Idle EXCEPT !.pc = "registry", !.program_type = program_type,
                            !.idx = found[1], !.vals = vals, !.flags = vals.flags,
                            !.known = Registered(interfaces_programs, found[1]),
                            !.code = code,
                            !.h = HookOf(program_type, mode)])
    /\ UNCHANGED <<datavars, nremoves, nfaults, lifevars, lock, textvars, appvars, dispatcher, last>>

\* self.__interfaces_programs[idx] = InterfaceHolder(...): a new key goes to
\* the end of the dict, the value of a key that is there is replaced.
Store(registry, idx, flags) ==
    IF Registered(registry, idx)
    THEN [k \in 1..Len(registry) |->
            IF registry[k].idx = idx THEN InterfaceHolder(idx, flags) ELSE registry[k]]
    ELSE Append(registry, InterfaceHolder(idx, flags))

\* compile_hook from the branch on that test to the getattr of the hook: the
\* reads of self.__interfaces_programs[idx] raise KeyError for a key that is
\* no longer there.
RegisterCompile(t) ==
    LET r == thread[t] IN
    /\ r.pc = "registry"
    /\ UNCHANGED <<ncalls, nremoves, nfaults, request, lock>>
    /\ IF ~r.known
       THEN /\ interfaces_programs' = Store(interfaces_programs, r.idx, r.vals.flags)
            /\ Goes(t, [r EXCEPT !.pc = "lock"])
            /\ UNCHANGED <<holder, next_map, loaded, handed, returned, pre, clsact, xdp, heap,
                           lifevars, textvars, appvars, dispatcher, last>>
       ELSE IF ~Registered(interfaces_programs, r.idx)
       THEN /\ Returns(t)
            /\ Leave("compile_hook", "KeyError", r.h, 0, holder[r.h].programs,
                     holder[r.h].ids, next_map[r.h], interfaces_programs, loaded,
                     [clsact |-> clsact, xdp |-> xdp])
       ELSE /\ Goes(t, [r EXCEPT !.pc = "lock",
                                 !.flags = IF r.program_type = "ingress"
                                           THEN HolderOf(interfaces_programs, r.idx).flags
                                           ELSE r.flags])
            /\ UNCHANGED <<datavars, lifevars, textvars, appvars, dispatcher, last>>

\* `with program_chain.lock:` of compile_hook, `with target.lock:` of
\* remove_hook: the thread waits until it can have the lock.
AcquireHook(t) ==
    LET r == thread[t] IN
    /\ r.pc = "lock"
    /\ CanAcquire(lock[r.h], t)
    /\ lock' = [lock EXCEPT ![r.h] = Acquire(@, t)]
    /\ Goes(t, [r EXCEPT !.pc = "locked"])
    /\ UNCHANGED <<chainvars, clsact, xdp, heap, lifevars, textvars, appvars, dispatcher, last>>

\* compile_hook, the block under the lock. __inject_pivot enters target.lock
\* once more, the same lock.
LockedCompile(t) ==
    LET r == thread[t] IN
    /\ r.pc = "locked"
    /\ r.program.program_id = 0
    /\ holder[r.h].programs = << >> => CanAcquire(lock[r.h], t)
    /\ CompileLocked(r.program_type, r.idx, r.vals, r.flags, r.code, "none",
                     interfaces_programs)
    /\ lock' = [lock EXCEPT ![r.h] = Release(@, t)]
    /\ Returns(t)
    /\ UNCHANGED <<ncalls, nremoves, nfaults, request>>

\* remove_hook up to the getattr of the hook, for the program at position pos
\* of hook h.
CallRemove(t, h, pos) ==
    LET program == holder[h].programs[pos] IN
    /\ thread[t].pc = "idle"
    /\ pos \in 2..Len(holder[h].programs)
    /\ nremoves' = nremoves + 1
    /\ UNCHANGED <<ncalls, nfaults, request, lock>>
    /\ IF ~Registered(interfaces_programs, program.idx)
       THEN /\ Returns(t)
            /\ Leave("remove_hook", "KeyError", h, 0, holder[h].programs, holder[h].ids,
                     next_map[h], interfaces_programs, loaded,
                     [clsact |-> clsact, xdp |-> xdp])
       ELSE /\ Goes(t, [Idle EXCEPT !.pc = "lock", !.h = h, !.idx = program.idx,
                                    !.program = program])
            /\ UNCHANGED <<datavars, lifevars, textvars, appvars, dispatcher, last>>

\* remove_hook, the block under the lock.
LockedRemove(t) ==
    LET r == thread[t] IN
    /\ r.pc = "locked"
    /\ r.program.program_id # 0
    /\ RemoveLocked(r.h, r.program)
    /\ lock' = [lock EXCEPT ![r.h] = Release(@, t)]
    /\ Returns(t)
    /\ UNCHANGED <<ncalls, nremoves, nfaults, request>>

\* What a step of EbpfCompiler.__del__ leaves behind.
LeaveDelStep(result) ==
    /\ last' = [op |-> "__del__", result |-> result, proc |-> 1, hook |-> last.hook,
                program_id |-> 0,
                prev |-> [op |-> last.op, result |-> last.result,
                          program_id |-> last.program_id]]
    /\ UNCHANGED <<chainvars, heap, textvars, appvars, dispatcher, garbage, exit_hooks, startup,
                   poll_threads, running, nconstructs>>

GoesDel(t, r) ==
    /\ Goes(t, r)
    /\ UNCHANGED <<chainvars, heap, textvars, appvars, dispatcher, garbage, exit_hooks, startup,
                   poll_threads, running, nconstructs, last>>

\* EbpfCompiler.__del__ up to the loop over the registry.
CallDel(t) ==
    /\ thread[t].pc = "idle"
    /\ instance[1].made
    /\ UNCHANGED <<lock, xdp, clsact>>
    /\ IF Destroyed(instance[1])
       THEN /\ Returns(t)
            /\ LeaveDelStep("noop")
            /\ UNCHANGED <<instance, sentinel>>
       ELSE /\ instance' = [instance EXCEPT ![1].is_destroyed = TRUE]
            /\ sentinel' = FALSE
            /\ IF ~sentinel
               THEN Returns(t) /\ LeaveDelStep("NetlinkError")
               ELSE GoesDel(t, [Idle EXCEPT !.pc = "next", !.k = 1,
                                            !.used = Len(interfaces_programs)])

\* The hook whose lock a thread in __del__ asks for.
WantedDel(pc) ==
    CASE pc = "ingress_xdp" -> "ingress_xdp"
      [] pc = "egress_xdp" -> "egress_xdp"
      [] pc = "ingress_tc" -> "ingress_tc"
      [] OTHER -> "egress_tc"

\* `for idx in self.__interfaces_programs.keys()`: the next key; RuntimeError
\* when the size of the dict has changed since the loop began.
NextDel(t) ==
    LET r == thread[t] IN
    /\ r.pc = "next"
    /\ UNCHANGED <<lock, xdp, clsact, instance, sentinel>>
    /\ IF Len(interfaces_programs) # r.used
       THEN Returns(t) /\ LeaveDelStep("RuntimeError")
       ELSE IF r.k > r.used
       THEN Returns(t) /\ LeaveDelStep("ok")
       ELSE GoesDel(t, [r EXCEPT !.pc = "ingress_xdp", !.idx = interfaces_programs[r.k].idx])

\* __del__ asks for the first lock of a `with a.lock, b.lock:`, the ingress
\* one; self.__interfaces_programs[idx] raises KeyError for a key that is gone.
OuterDel(t) ==
    LET r == thread[t]
        h == WantedDel(r.pc)
    IN
    /\ r.pc \in {"ingress_xdp", "ingress_tc"}
    /\ UNCHANGED <<xdp, clsact, instance, sentinel>>
    /\ IF ~Registered(interfaces_programs, r.idx)
       THEN Returns(t) /\ LeaveDelStep("KeyError") /\ UNCHANGED lock
       ELSE /\ CanAcquire(lock[h], t)
            /\ lock' = [lock EXCEPT ![h] = Acquire(@, t)]
            /\ GoesDel(t, [r EXCEPT !.pc = SiblingOf(h)])

\* __del__ asks for the second lock, the egress one, does the block under the
\* two locks and leaves both.
InnerDel(t) ==
    LET r == thread[t]
        h == WantedDel(r.pc)
        used == holder[h].programs # << >> \/ holder[SiblingOf(h)].programs # << >>
        free == [lock EXCEPT ![SiblingOf(h)] = Release(@, t)]
    IN
    /\ r.pc \in {"egress_xdp", "egress_tc"}
    /\ UNCHANGED <<instance, sentinel>>
    /\ IF ~Registered(interfaces_programs, r.idx)
       THEN /\ Returns(t) /\ LeaveDelStep("KeyError")
            /\ lock' = free
            /\ UNCHANGED <<xdp, clsact>>
       ELSE /\ CanAcquire(lock[h], t)
            /\ lock' = free
            /\ IF ModeOf(h) = "xdp"
               THEN /\ xdp' = IF used THEN MapDel(xdp, r.idx) ELSE xdp
                    /\ UNCHANGED clsact
                    /\ GoesDel(t, [r EXCEPT !.pc = "ingress_tc"])
               ELSE IF used /\ r.idx \notin DOMAIN clsact
               THEN /\ Returns(t) /\ LeaveDelStep("NetlinkError")
                    /\ UNCHANGED <<xdp, clsact>>
               ELSE /\ clsact' = IF used THEN MapDel(clsact, r.idx) ELSE clsact
                    /\ UNCHANGED xdp
                    /\ GoesDel(t, [r EXCEPT !.pc = "next", !.k = @ + 1])

\* The thread t goes on with the compile_hook or remove_hook it is in.
ContinueHook(t) ==
    \/ RegisterCompile(t)
    \/ AcquireHook(t)
    \/ LockedCompile(t)
    \/ LockedRemove(t)

\* The thread t goes on with the __del__ it is in.
ContinueDel(t) ==
    \/ NextDel(t)
    \/ OuterDel(t)
    \/ InnerDel(t)

\* The thread t goes on with the call it is in.
Continue(t) == ContinueHook(t) \/ ContinueDel(t)

\* Singleton.__call__ up to the test `if not cls._instance`: the caller gets
\* the instance that is there, or goes on into EbpfCompiler.__init__.
CallConstruct(t) ==
    /\ thread[t].pc = "idle"
    /\ running[1]
    /\ nconstructs' = nconstructs + 1
    /\ UNCHANGED <<hookvars, sentinel, instance, garbage, exit_hooks, startup, poll_threads,
                   running, lock, textvars, appvars, dispatcher>>
    /\ IF HasInstance(instance[1])
       THEN /\ Returns(t)
            /\ last' = [op |-> "EbpfCompiler", result |-> "instance", proc |-> 1,
                        hook |-> last.hook, program_id |-> 0,
                        prev |-> [op |-> last.op, result |-> last.result,
                                  program_id |-> last.program_id]]
       ELSE /\ Goes(t, [Idle EXCEPT !.pc = "init"])
            /\ UNCHANGED last

\* EbpfCompiler.__init__ called with callbacks, and the assignment to
\* cls._instance: adding the sentinel fails when it exists, and the thread
\* leaves through exit(17).
InitConstruct(t) ==
    /\ thread[t].pc = "init"
    /\ Returns(t)
    /\ UNCHANGED <<hookvars, running, nconstructs, lock, textvars, appvars, dispatcher>>
    /\ last' = [op |-> "EbpfCompiler", result |-> IF sentinel THEN "exit17" ELSE "ok",
                proc |-> 1, hook |-> last.hook, program_id |-> 0,
                prev |-> [op |-> last.op, result |-> last.result,
                          program_id |-> last.program_id]]
    /\ IF sentinel
       THEN /\ garbage' = [garbage EXCEPT ![1] = Append(@, RefusedInstance)]
            /\ UNCHANGED <<sentinel, instance, exit_hooks, startup, poll_threads>>
       ELSE /\ sentinel' = TRUE
            /\ startup' = [startup EXCEPT ![1] = @ + 1]
            /\ poll_threads' = [poll_threads EXCEPT ![1] = @ + 1]
            /\ exit_hooks' = [exit_hooks EXCEPT ![1] = @ + 1]
            /\ instance' = [instance EXCEPT ![1] = LiveInstance]
            /\ UNCHANGED garbage

\* Two threads of a process that has no EbpfCompiler yet call EbpfCompiler(...)
\* and tear the instance down.
ConstructSingleton ==
    /\ nconstructs < MaxConstructsSingleton
    /\ \E t \in Threads : CallConstruct(t)

InitSingleton == \E t \in Threads : InitConstruct(t)

DelSingleton == \E t \in Threads : CallDel(t)

\* No interface is registered: the loop of __del__ ends at once.
ContinueSingleton == \E t \in Threads : NextDel(t)

NextSingleton == ConstructSingleton \/ InitSingleton \/ DelSingleton \/ ContinueSingleton

SpecSingleton == InitLife /\ [][NextSingleton]_vars

\* The locked blocks of compile_hook and remove_hook are run by threads that
\* own different locks when the hooks differ: where a block looks at the
\* sibling hook or at the registry, it is split in two steps.

\* compile_hook on an empty TC hook, __inject_pivot up to the clsact qdisc:
\* the pivot is compiled, the holder is read, and when both TC lists are
\* empty the qdisc is added, which fails when it exists.
InjectQdisc(t) ==
    LET r == thread[t]
        loaded1 == Append(loaded, 0)
        alone == holder["ingress_tc"].programs = << >> /\ holder["egress_tc"].programs = << >>
    IN
    /\ r.pc = "locked"
    /\ r.program.program_id = 0
    /\ r.vals.mode = "tc"
    /\ holder[r.h].programs = << >>
    /\ UNCHANGED <<ncalls, nremoves, nfaults, request>>
    /\ IF ~Registered(interfaces_programs, r.idx) \/ (alone /\ r.idx \in DOMAIN clsact)
       THEN /\ Leave("compile_hook",
                     IF ~Registered(interfaces_programs, r.idx) THEN "KeyError"
                     ELSE "NetlinkError",
                     r.h, 0, << >>, holder[r.h].ids, next_map[r.h], interfaces_programs,
                     loaded1, [clsact |-> clsact, xdp |-> xdp])
            /\ lock' = [lock EXCEPT ![r.h] = Release(@, t)]
            /\ Returns(t)
       ELSE /\ CanAcquire(lock[r.h], t)
            /\ loaded' = loaded1
            /\ heap' = Allocate(heap, Len(loaded1))
            /\ clsact' = IF alone THEN MapSet(clsact, r.idx, {}) ELSE clsact
            /\ Goes(t, [r EXCEPT !.pc = "pivot", !.fd = Len(loaded1)])
            /\ UNCHANGED <<interfaces_programs, holder, next_map, handed, returned, pre, xdp,
                           lifevars, lock, textvars, appvars, dispatcher, last>>

\* __inject_pivot from add-filter on, and the rest of the locked block of
\* compile_hook: the pivot is attached and inserted, the probe is compiled,
\* linked and appended.
AttachPivot(t) ==
    LET r == thread[t]
        h == r.h
        p == NewProgram(0, r.idx, r.vals.mode, r.flags, "pivot", r.fd)
        popped == PopId(holder[h].ids)
        fd == Len(loaded) + 1
        ret == NewProgram(popped.id, r.idx, r.vals.mode, r.flags, r.code, fd)
    IN
    /\ r.pc = "pivot"
    /\ UNCHANGED <<ncalls, nremoves, nfaults, request>>
    /\ lock' = [lock EXCEPT ![h] = Release(@, t)]
    /\ Returns(t)
    /\ IF r.idx \notin DOMAIN clsact
       THEN Leave("compile_hook", "NetlinkError", h, 0, holder[h].programs, holder[h].ids,
                  next_map[h], interfaces_programs, loaded, [clsact |-> clsact, xdp |-> xdp])
       ELSE Leave("compile_hook", "ok", h, popped.id,
                  IF HasSwapCode(r.code) THEN <<p, SwapStateCompile(ret, fd + 1)>>
                  ELSE <<p, ret>>,
                  popped.rest, LinkTail(PivotChainMap, <<p>>, fd), interfaces_programs,
                  IF HasSwapCode(r.code) THEN loaded \o <<popped.id, popped.id>>
                  ELSE Append(loaded, popped.id),
                  [clsact |-> [clsact EXCEPT ![r.idx] = @ \cup {r.vals.parent}], xdp |-> xdp])

\* remove_hook of the only probe of a hook, up to target.programs.clear().
ClearRemove(t) ==
    LET r == thread[t]
        target == holder[r.h]
        index == IndexOf(target.programs, r.program)
    IN
    /\ r.pc = "locked"
    /\ r.program.program_id # 0
    /\ Len(target.programs) = 2
    /\ index # 0
    /\ holder' = [holder EXCEPT ![r.h] = [programs |-> << >>,
                                          ids |-> FreeId(target.ids,
                                                         target.programs[index].program_id)]]
    /\ next_map' = [next_map EXCEPT ![r.h] = NoChainMap]
    /\ heap' = DelReversed(heap, target.programs)
    /\ Goes(t, [r EXCEPT !.pc = "cleared"])
    /\ UNCHANGED <<interfaces_programs, loaded, ncalls, nremoves, nfaults, handed, returned,
                   pre, request, clsact, xdp, lifevars, lock, textvars, appvars, dispatcher, last>>

\* remove_hook of the only probe of a hook, from the look at the sibling hook
\* to the return.
DetachRemove(t) ==
    LET r == thread[t]
        h == r.h
        idx == r.program.idx
        kernel == [clsact |-> clsact, xdp |-> xdp]
        result == IF ~Registered(interfaces_programs, idx) THEN "KeyError"
                  ELSE IF holder[SiblingOf(h)].programs # << >> THEN "ok"
                  ELSE IF ModeOf(h) = "tc" /\ idx \notin DOMAIN clsact THEN "NetlinkError"
                  ELSE "ok"
        last_one == Registered(interfaces_programs, idx)
                    /\ holder[SiblingOf(h)].programs = << >> /\ result = "ok"
    IN
    /\ r.pc = "cleared"
    /\ UNCHANGED <<ncalls, nremoves, nfaults, request>>
    /\ lock' = [lock EXCEPT ![h] = Release(@, t)]
    /\ Returns(t)
    /\ Leave("remove_hook", result, h, r.program.program_id, << >>, holder[h].ids,
             NoChainMap,
             IF last_one THEN Unregister(interfaces_programs, idx) ELSE interfaces_programs,
             loaded,
             IF ~last_one THEN kernel
             ELSE IF ModeOf(h) = "tc" THEN [clsact |-> MapDel(clsact, idx), xdp |-> xdp]
             ELSE [clsact |-> clsact, xdp |-> MapDel(xdp, idx)])

\* Two threads of process 1 attach plain probes to the two TC hooks of one
\* interface and then remove them.
CompileSiblings ==
    /\ ncalls < MaxCallsSiblings
    /\ nremoves = 0
    /\ \E t \in Threads, program_type \in {"ingress", "egress"} :
          CallCompile(t, program_type, "eth0", "tc", 2, "plain")

RemoveSiblings ==
    /\ nremoves < MaxRemovesSiblings
    /\ \A t \in Threads : thread[t].pc = "idle" \/ thread[t].program.program_id # 0
    /\ \E t \in Threads, h \in Hooks, pos \in 2..MaxCallsSiblings + 1 : CallRemove(t, h, pos)

\* The thread t goes on with its call, the locked block in one step where it
\* looks at its own hook only.
ContinueSplit(t) ==
    \/ RegisterCompile(t)
    \/ AcquireHook(t)
    \/ holder[thread[t].h].programs # << >> /\ LockedCompile(t)
    \/ InjectQdisc(t)
    \/ AttachPivot(t)
    \/ /\ \/ Len(holder[thread[t].h].programs) # 2
          \/ IndexOf(holder[thread[t].h].programs, thread[t].program) = 0
       /\ LockedRemove(t)
    \/ ClearRemove(t)
    \/ DetachRemove(t)

ContinueSiblings == \E t \in Threads : ContinueSplit(t)

NextSiblings == CompileSiblings \/ RemoveSiblings \/ ContinueSiblings

SpecSiblings == Init /\ [][NextSiblings]_vars

\* Two threads of process 1 attach probes with and without a swapped map to
\* the TC hooks of one interface, thread 2 removes probes, and the maps of a
\* pair are swapped at any time; no call fails for a reason outside the
\* controller.
CompileThreads ==
    /\ ncalls < MaxCallsThreads
    /\ \E t \in Threads, program_type \in {"ingress", "egress"}, code \in {"plain", "swap"} :
          CallCompile(t, program_type, "eth0", "tc", 2, code)

RemoveThreads ==
    /\ nremoves < MaxRemovesThreads
    /\ \E h \in Hooks, pos \in 2..MaxCallsThreads + 1 : CallRemove(2, h, pos)

ReadThreads == \E h \in Hooks, pos \in 2..MaxCallsThreads + 1 : TriggerRead(h, pos)

ContinueThreads == \E t \in Threads : ContinueHook(t)

NextThreads ==
    \/ CompileThreads
    \/ RemoveThreads
    \/ ReadThreads
    \/ ContinueThreads

SpecThreads == Init /\ [][NextThreads]_vars

\* Both threads attach plain probes to the TC hooks of one interface, thread 1
\* removes probes, thread 2 tears the controller down.
CompileTeardown ==
    /\ ncalls < MaxCallsTeardown
    /\ \E t \in Threads, program_type \in {"ingress", "egress"} :
          CallCompile(t, program_type, "eth0", "tc", 2, "plain")

RemoveTeardown ==
    /\ nremoves < MaxRemovesTeardown
    /\ \E h \in Hooks, pos \in 2..MaxCallsTeardown + 1 : CallRemove(1, h, pos)

DelTeardown == CallDel(2)

ContinueTeardown == \E t \in Threads : Continue(t)

NextTeardown ==
    \/ CompileTeardown
    \/ RemoveTeardown
    \/ DelTeardown
    \/ ContinueTeardown

SpecTeardown == Init /\ [][NextTeardown]_vars

\* The scheduler lets every thread that can go on do so.
FairTeardown == SpecTeardown /\ \A t \in Threads : WF_vars(Continue(t))

----------------------------------------------------------------------------
\* The Controller (controller.py): probes, clusters and the programs of
\* the interface in use, in TC mode.

\* The ProbeConfig objects a caller may pass: the interface, and for each hook
\* no code, a code that compiles or a code the toolchain rejects.
ProbeConfigs ==
    {[interface |-> "eth0", ingress |-> "plain", egress |-> "none", is_in_cluster |-> FALSE],
     [interface |-> "eth0", ingress |-> "none", egress |-> "plain", is_in_cluster |-> FALSE],
     [interface |-> "eth0", ingress |-> "plain", egress |-> "broken", is_in_cluster |-> FALSE],
     [interface |-> "eth0", ingress |-> "none", egress |-> "none", is_in_cluster |-> FALSE],
     [interface |-> "eth9", ingress |-> "plain", egress |-> "none", is_in_cluster |-> FALSE]}

\* The entries of ClusterConfig.probes: a ProbeConfig with its plugin and name.
ClusterProbeConfigs ==
    {[plugin_name |-> "adaptmon", name |-> "p1", interface |-> "eth0", ingress |-> "plain",
      egress |-> "none", is_in_cluster |-> FALSE],
     [plugin_name |-> "adaptmon", name |-> "p2", interface |-> "eth0", ingress |-> "plain",
      egress |-> "none", is_in_cluster |-> FALSE],
     [plugin_name |-> "adaptmon", name |-> "p2", interface |-> "eth0", ingress |-> "plain",
      egress |-> "broken", is_in_cluster |-> FALSE]}

\* The state a call of the Controller works on, and the create_probe and
\* delete_probe calls made so far within the call.
ControllerState ==
    [probes |-> probes, clusters |-> clusters, programs |-> controller_programs,
     loaded |-> loaded, clsact |-> clsact, log |-> << >>]

Raised(c, result) == [c |-> c, result |-> result]

\* Op applied to the value of e, which is evaluated once.
Bind(Op(_), e) == CHOOSE r \in {Op(x) : x \in {e}} : TRUE

\* __check_probe_exists with the probe looked up before the plugin.
CheckProbeFirst(c, plugin_name, probe_name, is_creating) ==
    IF ~is_creating /\ (plugin_name \notin PluginsToLoad
                        \/ probe_name \notin DOMAIN c.probes[plugin_name])
    THEN "ProbeNotFoundException"
    ELSE IF plugin_name \notin PluginsToLoad THEN "PluginNotFoundException"
    ELSE IF is_creating /\ probe_name \in DOMAIN c.probes[plugin_name]
    THEN "ProbeAlreadyExistsException"
    ELSE "ok"

\* Controller.__check_probe_exists: the exception raised, or "ok".
CheckProbeExists(c, plugin_name, probe_name, is_creating) ==
    IF plugin_name \notin PluginsToLoad THEN "PluginNotFoundException"
    ELSE IF is_creating /\ probe_name \in DOMAIN c.probes[plugin_name]
    THEN "ProbeAlreadyExistsException"
    ELSE IF ~is_creating /\ probe_name \notin DOMAIN c.probes[plugin_name]
    THEN "ProbeNotFoundException"
    ELSE "ok"

\* Controller.__inject_pivot in TC mode: the pivot is compiled and loaded, the
\* clsact qdisc added when both hook lists are empty, the filter added.
ControllerInjectPivot(c, idx, program_type) ==
    LET fd == Len(c.loaded) + 1
        c1 == [c EXCEPT !.loaded = Append(@, 0)]
        parent == EbpfValues("tc", 0, program_type).parent
        both_empty == /\ c.programs.ingress.programs = << >>
                      /\ c.programs.egress.programs = << >>
    IN IF both_empty /\ idx \in DOMAIN c.clsact THEN Raised(c1, "NetlinkError")
       ELSE LET c2 == IF both_empty THEN [c1 EXCEPT !.clsact = MapSet(@, idx, {})] ELSE c1
            IN IF idx \notin DOMAIN c2.clsact THEN Raised(c2, "NetlinkError")
               ELSE Raised([c2 EXCEPT !.clsact[idx] = @ \cup {parent},
                                      !.programs[program_type] =
                                          [programs |-> <<[fd |-> fd, probe_id |-> 0]>>,
                                           next |-> NoChainMap]],
                           "ok")

\* One round of the loop of Controller.__compile, from the pivot on.
ControllerCompileProbe(r, piv, config, program_type) ==
    IF piv.result # "ok" THEN [r EXCEPT !.c = piv.c, !.result = piv.result]
    ELSE LET hook == piv.c.programs[program_type]
             current_probes == Len(hook.programs)
             fd == Len(piv.c.loaded) + 1
             p == [fd |-> fd, probe_id |-> current_probes]
         IN IF config[program_type] = "broken"
            THEN [r EXCEPT !.c = piv.c, !.result = "Exception"]
            ELSE [c |-> [piv.c EXCEPT
                           !.loaded = Append(@, current_probes),
                           !.programs[program_type] =
                               [programs |-> Append(hook.programs, p),
                                next |-> IF current_probes - 1 \in DOMAIN hook.next
                                         THEN hook.next
                                         ELSE MapSet(hook.next, current_probes - 1, fd)]],
                  result |-> "ok",
                  comp |-> [r.comp EXCEPT ![program_type] = p]]

\* One round of the loop of Controller.__compile.
ControllerCompileHook(r, config, idx, program_type) ==
    IF r.result # "ok" \/ config[program_type] = "none" THEN r
    ELSE LET attach(piv) == ControllerCompileProbe(r, piv, config, program_type)
         IN Bind(attach, IF r.c.programs[program_type].programs = << >>
                         THEN ControllerInjectPivot(r.c, idx, program_type)
                         ELSE Raised(r.c, "ok"))

\* Controller.__compile
ControllerCompile(c, config) ==
    IF LinkLookup(config.interface) = << >>
    THEN [c |-> c, result |-> "UnknownInterfaceException", comp |-> ProbeCompilation]
    ELSE LET idx == LinkLookup(config.interface)[1]
             egress(r) == ControllerCompileHook(r, config, idx, "egress")
         IN Bind(egress, ControllerCompileHook(
                             [c |-> c, result |-> "ok", comp |-> ProbeCompilation],
                             config, idx, "ingress"))

\* One round of the loop of Controller.__remove_probe_programs.
RemoveProbeProgram(r, conf, idx, program_type) ==
    IF r.result # "ok" \/ conf[program_type] = NoProgram THEN r
    ELSE LET program == conf[program_type]
             target == r.c.programs[program_type]
             current_probes == Len(target.programs)
             other == IF program_type = "ingress" THEN "egress" ELSE "ingress"
             hits == {k \in 1..current_probes : target.programs[k] = program}
             index == IF hits = {} THEN 0 ELSE CHOOSE k \in hits : \A j \in hits : k <= j
             next == target.next
         IN IF current_probes = 2
            THEN LET c1 == [r.c EXCEPT !.programs[program_type] = NoHookPrograms]
                 IN IF c1.programs[other].programs # << >> THEN Raised(c1, "ok")
                    ELSE IF idx \notin DOMAIN c1.clsact THEN Raised(c1, "NetlinkError")
                    ELSE Raised([c1 EXCEPT !.clsact = MapDel(@, idx)], "ok")
            ELSE IF index = 0 THEN Raised(r.c, "ValueError")
            ELSE IF index # current_probes
            THEN IF program.probe_id - 1 \notin DOMAIN next
                 THEN Raised(r.c, "KeyError")
                 ELSE Raised(r.c, "AttributeError")
            ELSE IF program.probe_id + 1 \notin DOMAIN next THEN Raised(r.c, "KeyError")
            ELSE LET next1 == MapSet(next, program.probe_id - 1, next[program.probe_id + 1])
                 IN IF program.probe_id \notin DOMAIN next1
                    THEN Raised([r.c EXCEPT !.programs[program_type].next = next1],
                                "KeyError")
                    ELSE Raised([r.c EXCEPT !.programs[program_type] =
                                               [programs |-> RemoveAt(target.programs, index),
                                                next |-> MapDel(next1, program.probe_id)]],
                                "ok")

\* Controller.__remove_probe_programs
RemoveProbePrograms(c, conf) ==
    LET egress(r) == RemoveProbeProgram(r, conf, 1, "egress")
    IN Bind(egress, RemoveProbeProgram(Raised(c, "ok"), conf, 1, "ingress"))

Logged(c, op, plugin_name, probe_name, result) ==
    [c EXCEPT !.log = Append(@, [op |-> op, plugin_name |-> plugin_name,
                                 probe_name |-> probe_name, result |-> result])]

\* create_probe with the probe registered before its programs are compiled.
CreateProbeEarly(c, plugin_name, probe_name, conf) ==
    LET check == CheckProbeExists(c, plugin_name, probe_name, TRUE)
        logged(s, result) == Raised(Logged(s, "create_probe", plugin_name, probe_name, result),
                                    result)
    IN IF check # "ok" THEN logged(c, check)
       ELSE IF conf.ingress = "none" /\ conf.egress = "none"
       THEN logged(c, "NoCodeProbeException")
       ELSE LET register(out) ==
                    logged([out.c EXCEPT !.probes[plugin_name] =
                                  MapSet(@, probe_name, [is_in_cluster |-> conf.is_in_cluster,
                                                         programs |-> out.comp])],
                           out.result)
            IN Bind(register, ControllerCompile(c, conf))

\* Controller.create_probe
CreateProbe(c, plugin_name, probe_name, conf) ==
    LET check == CheckProbeExists(c, plugin_name, probe_name, TRUE)
        logged(s, result) == Raised(Logged(s, "create_probe", plugin_name, probe_name, result),
                                    result)
    IN IF check # "ok" THEN logged(c, check)
       ELSE IF conf.ingress = "none" /\ conf.egress = "none"
       THEN logged(c, "NoCodeProbeException")
       ELSE LET register(out) ==
                    IF out.result # "ok" THEN logged(out.c, out.result)
                    ELSE logged([out.c EXCEPT !.probes[plugin_name] =
                                       MapSet(@, probe_name,
                                              [is_in_cluster |-> conf.is_in_cluster,
                                               programs |-> out.comp])],
                                "ok")
            IN Bind(register, ControllerCompile(c, conf))

\* Controller.delete_probe
DeleteProbe(c, plugin_name, probe_name) ==
    LET check == CheckProbeExists(c, plugin_name, probe_name, FALSE)
        logged(s, result) == Raised(Logged(s, "delete_probe", plugin_name, probe_name, result),
                                    result)
    IN IF check # "ok" THEN logged(c, check)
       ELSE IF c.probes[plugin_name][probe_name].is_in_cluster
       THEN logged(c, "ProbeInClusterException")
       ELSE LET unregister(out) ==
                    IF out.result # "ok" THEN logged(out.c, out.result)
                    ELSE logged([out.c EXCEPT !.probes[plugin_name] = MapDel(@, probe_name)],
                                "ok")
            IN Bind(unregister,
                    RemoveProbePrograms(c, c.probes[plugin_name][probe_name].programs))

\* One round of the loop of create_cluster over conf.probes; cluster_comp keeps
\* the probes created, in the order of their creation.
CreateClusterProbe(r, conf) ==
    IF r.result # "ok" THEN r
    ELSE LET probe_config == [interface |-> conf.interface, ingress |-> conf.ingress,
                              egress |-> conf.egress, is_in_cluster |-> TRUE]
             record(out) ==
                 [c |-> out.c, result |-> out.result,
                  comp |-> IF out.result = "ok"
                           THEN Append(r.comp, <<conf.plugin_name, conf.name>>)
                           ELSE r.comp]
         IN Bind(record, CreateProbe(r.c, conf.plugin_name, conf.name, probe_config))

\* The loop of create_cluster over the first k entries of conf.probes.
RECURSIVE CreateClusterProbes(_, _, _)
CreateClusterProbes(c, confs, k) ==
    IF k = 0 THEN [c |-> c, result |-> "ok", comp |-> << >>]
    ELSE LET round(r) == CreateClusterProbe(r, confs[k])
         IN Bind(round, CreateClusterProbes(c, confs, k - 1))

\* Controller.create_cluster
CreateCluster(c, cluster_name, conf) ==
    LET register(out) ==
            IF out.result # "ok" THEN Raised(out.c, out.result)
            ELSE IF conf.cp_function = "raises" THEN Raised(out.c, "Exception")
            ELSE Raised([out.c EXCEPT !.clusters = MapSet(@, cluster_name, out.comp)], "ok")
    IN Bind(register, CreateClusterProbes(c, conf.probes, Len(conf.probes)))

\* One round of the loop of delete_cluster over the probes of the cluster popped.
DeleteClusterProbe(r, plugin_name, probe_name) ==
    IF r.result # "ok" THEN r
    ELSE IF probe_name \notin DOMAIN r.c.probes[plugin_name] THEN Raised(r.c, "KeyError")
    ELSE DeleteProbe([r.c EXCEPT !.probes[plugin_name][probe_name].is_in_cluster = FALSE],
                     plugin_name, probe_name)

\* The loop of delete_cluster over the first k probes of the cluster.
RECURSIVE DeleteClusterProbes(_, _, _)
DeleteClusterProbes(c, cluster, k) ==
    IF k = 0 THEN Raised(c, "ok")
    ELSE LET round(r) == DeleteClusterProbe(r, cluster[k][1], cluster[k][2])
         IN Bind(round, DeleteClusterProbes(c, cluster, k - 1))

\* Controller.delete_cluster
DeleteCluster(c, cluster_name) ==
    IF cluster_name \notin DOMAIN c.clusters THEN Raised(c, "ClusterNotFoundException")
    ELSE DeleteClusterProbes([c EXCEPT !.clusters = MapDel(@, cluster_name)],
                             c.clusters[cluster_name], Len(c.clusters[cluster_name]))

\* The probes created and not deleted since, after the calls of a log.
RECURSIVE LiveAfter(_, _, _)
LiveAfter(live, log, k) ==
    IF k > Len(log) THEN live
    ELSE LET e == log[k]
             pair == <<e.plugin_name, e.probe_name>>
         IN LiveAfter(IF e.result # "ok" THEN live
                      ELSE IF e.op = "create_probe" THEN live \cup {pair}
                      ELSE live \ {pair},
                      log, k + 1)

\* The state a call of the Controller leaves behind.
LeaveController(op, args, out) ==
    /\ probes' = out.c.probes
    /\ clusters' = out.c.clusters
    /\ controller_programs' = out.c.programs
    /\ loaded' = out.c.loaded
    /\ clsact' = out.c.clsact
    /\ call' = [op |-> op, plugin_name |-> args.plugin_name, probe_name |-> args.probe_name,
                cluster_name |-> args.cluster_name,
                live |-> LiveAfter(call.live, out.c.log, 1)]
    /\ last' = [op |-> op, result |-> out.result, proc |-> 1, hook |-> last.hook,
                program_id |-> 0,
                prev |-> [op |-> last.op, result |-> last.result,
                          program_id |-> last.program_id]]
    /\ UNCHANGED <<interfaces_programs, holder, next_map, ncalls, nremoves, nfaults, handed,
                   returned, pre, request, xdp, heap, lifevars, threadvars, textvars,
                   plugvars, dispatcher>>

ProbeArgs(plugin_name, probe_name) ==
    [plugin_name |-> plugin_name, probe_name |-> probe_name, cluster_name |-> "none"]

ClusterArgs(cluster_name) ==
    [plugin_name |-> "none", probe_name |-> "none", cluster_name |-> cluster_name]

\* Controller.get_probe
GetProbeCall ==
    \E plugin_name \in PluginNames, probe_name \in ProbeNames :
        \E out \in {Raised(ControllerState,
                             CheckProbeExists(ControllerState, plugin_name, probe_name,
                                              FALSE))} :
            LeaveController("get_probe", ProbeArgs(plugin_name, probe_name), out)

CreateProbeCall ==
    /\ Len(loaded) < MaxLoadsProbes
    /\ \E plugin_name \in PluginNames, probe_name \in ProbeNames, conf \in ProbeConfigs :
          \E out \in {CreateProbe(ControllerState, plugin_name, probe_name, conf)} :
              LeaveController("create_probe", ProbeArgs(plugin_name, probe_name), out)

DeleteProbeCall ==
    \E plugin_name \in PluginNames, probe_name \in ProbeNames :
        \E out \in {DeleteProbe(ControllerState, plugin_name, probe_name)} :
            LeaveController("delete_probe", ProbeArgs(plugin_name, probe_name), out)

CreateClusterCall ==
    /\ Len(loaded) < MaxLoadsProbes
    /\ \E cluster_name \in ClusterNames, n \in 1..MaxClusterProbes,
          cp_function \in {"none", "raises"} :
          \E confs \in [1..n -> ClusterProbeConfigs] :
              \E out \in {CreateCluster(ControllerState, cluster_name,
                                         [probes |-> confs, cp_function |-> cp_function])} :
                  LeaveController("create_cluster", ClusterArgs(cluster_name), out)

DeleteClusterCall ==
    \E cluster_name \in ClusterNames :
        \E out \in {DeleteCluster(ControllerState, cluster_name)} :
            LeaveController("delete_cluster", ClusterArgs(cluster_name), out)

NextProbes ==
    \/ GetProbeCall
    \/ CreateProbeCall
    \/ DeleteProbeCall
    \/ CreateClusterCall
    \/ DeleteClusterCall

SpecProbes == Init /\ [][NextProbes]_vars

----------------------------------------------------------------------------
\* The calls of the plugins.

InSeq(s, x) == \E k \in DOMAIN s : s[k] = x

\* list.index, from 0.
ListIndex(s, x) == (CHOOSE k \in DOMAIN s : s[k] = x /\ \A j \in DOMAIN s : s[j] = x => k <= j) - 1

\* list.insert(i, x) and list.pop(i), positions from 0.
ListInsert(s, i, x) == SubSeq(s, 1, i) \o <<x>> \o SubSeq(s, i + 1, Len(s))

ListPop(s, i) == SubSeq(s, 1, i) \o SubSeq(s, i + 2, Len(s))

Done(plugin, result) == [plugin |-> plugin, result |-> result]

\* delete_at, the loop over the words right of the word of the rule: each is
\* shifted left by one and takes the top bit of the word to its right.
RECURSIVE ShiftWordsLeft(_, _, _, _, _)
ShiftWordsLeft(arr, w, word, carry, cnt_zeros) ==
    IF w <= word THEN [arr |-> arr, carry |-> carry, cnt_zeros |-> cnt_zeros]
    ELSE ShiftWordsLeft(
             [arr EXCEPT ![w + 1] = Uint64(Shl(arr[w + 1], 1) \cup BitWord(carry))],
             w - 1, word,
             IF WordBits - 1 \in arr[w + 1] THEN 1 ELSE 0,
             cnt_zeros + (IF arr[w + 1] = {} THEN 1 ELSE 0))

\* delete_at on one entry of a map: the new rule_words, or None once deleted.
DeleteBit(arr, rule_id, words) ==
    LET word == rule_id \div WordBits
        offset_ok == WordBits - (rule_id % WordBits)
        right == ShiftWordsLeft(arr, words - 1, word, 0, 0)
        cnt_zeros == right.cnt_zeros + (IF right.arr[word + 1] = {} THEN 1 ELSE 0)
        ok == Shl(Shr(right.arr[word + 1], offset_ok), offset_ok)
        to_shift == Shl(LowBits(right.arr[word + 1], offset_ok), 1) \cup BitWord(right.carry)
    IN IF cnt_zeros = words THEN None
       ELSE [right.arr EXCEPT ![word + 1] = Uint64(ok \cup to_shift)]

\* Firewall.delete_at
FirewallDeleteAt(fw, rule_id) ==
    IF rule_id >= Len(fw.rules) THEN Done(fw, "IndexError")
    ELSE LET shifted(map) ==
                 LET kept == {key \in DOMAIN map :
                                 DeleteBit(map[key], rule_id, fw.rule_ids_word_per_entry)
                                     # None}
                 IN [key \in kept |-> DeleteBit(map[key], rule_id, fw.rule_ids_word_per_entry)]
         IN Done([fw EXCEPT !.rules = ListPop(@, rule_id),
                            !.maps = [map_name \in FirewallAllMaps |-> shifted(@[map_name])],
                            !.actions = MapSet(@, rule_id, "PASS")],
                 "ok")

\* Firewall.delete
FirewallDelete(fw, rule) ==
    IF ~InSeq(fw.rules, rule) THEN Done(fw, "LookupError")
    ELSE FirewallDeleteAt(fw, ListIndex(fw.rules, rule))

\* Firewall.insert_at. With rule_id inside the list and an entry in a map, the
\* loop over the entries reads self.__rule_ids_word_per_entry, an attribute no
\* statement of the class assigns, before it stores anything.
FirewallInsertAt(fw, rule_id, rule) ==
    IF InSeq(fw.rules, rule) THEN Done(fw, "LookupError")
    ELSE IF rule_id > Len(fw.rules) THEN Done(fw, "IndexError")
    ELSE IF rule_id = fw.max_rules THEN Done(fw, "MemoryError")
    ELSE IF /\ rule_id < Len(fw.rules)
            /\ \E map_name \in FirewallAllMaps : DOMAIN fw.maps[map_name] # {}
    THEN Done(fw, "AttributeError")
    ELSE LET word == rule_id \div WordBits
             offset == WordBits - 1 - (rule_id % WordBits)
             values == TranslateRule(rule)
             target(i) == IF values[i] = None THEN FirewallMaps[i] \o "_WILDCARDS"
                          ELSE FirewallMaps[i]
             key(i) == IF values[i] = None THEN 0 ELSE values[i][1]
             set(map, k) ==
                 LET arr == IF k \in DOMAIN map THEN map[k]
                            ELSE ZeroWords(fw.rule_ids_word_per_entry)
                 IN MapSet(map, k, [arr EXCEPT ![word + 1] = @ \cup {offset}])
         IN Done([fw EXCEPT
                    !.maps = [map_name \in FirewallAllMaps |->
                                 IF \E i \in DOMAIN FirewallMaps : target(i) = map_name
                                 THEN set(fw.maps[map_name],
                                          key(CHOOSE i \in DOMAIN FirewallMaps :
                                                  target(i) = map_name))
                                 ELSE fw.maps[map_name]],
                    !.actions = MapSet(@, rule_id, "DROP"),
                    !.rules = ListInsert(@, rule_id, rule)],
                 "ok")

\* Firewall.insert
FirewallInsert(fw, rule) == FirewallInsertAt(fw, Len(fw.rules), rule)

\* Firewall.update
FirewallUpdate(fw, rule_id, rule) ==
    IF InSeq(fw.rules, rule) THEN Done(fw, "LookupError")
    ELSE IF rule_id >= Len(fw.rules) THEN Done(fw, "IndexError")
    ELSE FirewallInsertAt(FirewallDeleteAt(fw, rule_id).plugin, rule_id, rule)

\* Firewall.reset
FirewallReset(fw) ==
    Done([fw EXCEPT !.rules = << >>, !.maps = [map_name \in FirewallAllMaps |-> << >>]], "ok")

MitigatorKey(rule) == [netmask_len |-> rule.netmask, ip |-> Ipv4ToNetworkInt(rule.ip)]

\* Mitigator.delete_at
MitigatorDeleteAt(m, rule_id) ==
    IF rule_id >= Len(m.rules) THEN Done(m, "IndexError")
    ELSE LET key == MitigatorKey(m.rules[rule_id + 1])
             popped == [m EXCEPT !.rules = ListPop(@, rule_id)]
         IN IF key \notin m.map THEN Done(popped, "KeyError")
            ELSE Done([popped EXCEPT !.map = @ \ {key}], "ok")

\* Mitigator.delete
MitigatorDelete(m, rule) ==
    IF ~InSeq(m.rules, rule) THEN Done(m, "LookupError")
    ELSE MitigatorDeleteAt(m, ListIndex(m.rules, rule))

\* Mitigator.insert_at. BLACKLISTED_IPS is declared by the eBPF source of the
\* probe; room tells whether it takes one more key once it holds max_rules.
MitigatorInsertAt(m, rule_id, rule, room) ==
    IF InSeq(m.rules, rule) THEN Done(m, "LookupError")
    ELSE IF rule_id > Len(m.rules) THEN Done(m, "IndexError")
    ELSE IF rule_id = m.max_rules THEN Done(m, "MemoryError")
    ELSE IF /\ MitigatorKey(rule) \notin m.map
            /\ Cardinality(m.map) >= m.max_rules
            /\ ~room
    THEN Done(m, "Exception")
    ELSE Done([m EXCEPT !.map = @ \cup {MitigatorKey(rule)},
                        !.rules = ListInsert(@, rule_id, rule)],
              "ok")

\* Mitigator.insert
MitigatorInsert(m, rule, room) == MitigatorInsertAt(m, Len(m.rules), rule, room)

\* Mitigator.update
MitigatorUpdate(m, rule_id, rule, room) ==
    IF InSeq(m.rules, rule) THEN Done(m, "LookupError")
    ELSE IF rule_id >= Len(m.rules) THEN Done(m, "IndexError")
    ELSE MitigatorInsertAt(MitigatorDeleteAt(m, rule_id).plugin, rule_id, rule, room)

\* Mitigator.reset
MitigatorReset(m) == Done([m EXCEPT !.rules = << >>, !.map = {}], "ok")

\* The state a call of a plugin leaves behind. The probes share nothing, and a
\* behaviour follows the calls of one of them.
LeaveRules(plugin_name, op, rule_id, rule, out) ==
    /\ rule_call.plugin_name \in {"none", plugin_name}
    /\ firewall' = IF plugin_name = "firewall" THEN out.plugin ELSE firewall
    /\ mitigator' = IF plugin_name = "mitigator" THEN out.plugin ELSE mitigator
    /\ rule_call' = [plugin_name |-> plugin_name, op |-> op, rule_id |-> rule_id,
                     rule |-> IF rule = None THEN None ELSE Some(rule)]
    /\ last' = [op |-> op, result |-> out.result, proc |-> 1, hook |-> last.hook,
                program_id |-> 0, prev |-> [op |-> "none", result |-> "ok", program_id |-> 0]]
    /\ UNCHANGED <<hookvars, lifevars, threadvars, textvars, ctlvars, dispatcher>>

FirewallInsertCall ==
    \E rule \in FirewallRules :
        \/ \E out \in {FirewallInsert(firewall, rule)} :
              LeaveRules("firewall", "insert", Len(firewall.rules), rule, out)
        \/ \E rule_id \in 0..MaxRules + 1 :
              \E out \in {FirewallInsertAt(firewall, rule_id, rule)} :
                  LeaveRules("firewall", "insert_at", rule_id, rule, out)

FirewallDeleteCall ==
    \/ \E rule \in FirewallRules :
          \E out \in {FirewallDelete(firewall, rule)} :
              LeaveRules("firewall", "delete", 0, rule, out)
    \/ \E rule_id \in 0..MaxRules + 1 :
          \E out \in {FirewallDeleteAt(firewall, rule_id)} :
              LeaveRules("firewall", "delete_at", rule_id, None, out)

FirewallUpdateCall ==
    \E rule \in FirewallRules, rule_id \in 0..MaxRules + 1 :
        \E out \in {FirewallUpdate(firewall, rule_id, rule)} :
            LeaveRules("firewall", "update", rule_id, rule, out)

FirewallResetCall ==
    \E out \in {FirewallReset(firewall)} : LeaveRules("firewall", "reset", 0, None, out)

MitigatorInsertCall ==
    \E rule \in MitigatorRules, room \in BOOLEAN :
        \/ \E out \in {MitigatorInsert(mitigator, rule, room)} :
              LeaveRules("mitigator", "insert", Len(mitigator.rules), rule, out)
        \/ \E rule_id \in 0..MaxRules + 1 :
              \E out \in {MitigatorInsertAt(mitigator, rule_id, rule, room)} :
                  LeaveRules("mitigator", "insert_at", rule_id, rule, out)

MitigatorDeleteCall ==
    \/ \E rule \in MitigatorRules :
          \E out \in {MitigatorDelete(mitigator, rule)} :
              LeaveRules("mitigator", "delete", 0, rule, out)
    \/ \E rule_id \in 0..MaxRules + 1 :
          \E out \in {MitigatorDeleteAt(mitigator, rule_id)} :
              LeaveRules("mitigator", "delete_at", rule_id, None, out)

MitigatorUpdateCall ==
    \E rule \in MitigatorRules, rule_id \in 0..MaxRules + 1, room \in BOOLEAN :
        \E out \in {MitigatorUpdate(mitigator, rule_id, rule, room)} :
            LeaveRules("mitigator", "update", rule_id, rule, out)

MitigatorResetCall ==
    \E out \in {MitigatorReset(mitigator)} : LeaveRules("mitigator", "reset", 0, None, out)

NextRules ==
    \/ FirewallInsertCall
    \/ FirewallDeleteCall
    \/ FirewallUpdateCall
    \/ FirewallResetCall
    \/ MitigatorInsertCall
    \/ MitigatorDeleteCall
    \/ MitigatorUpdateCall
    \/ MitigatorResetCall

\* The Controller is up; the Firewall is configured with few rules, or with
\* more than one word of rule IDs.
InitRules ==
    /\ InitController
    /\ source = << >>
    /\ output = NoOutput
    /\ firewall \in {NewFirewall(MaxRules), NewFirewall(WordBits + 1)}
    /\ mitigator = NewMitigator(MaxRules)
    /\ rule_call = NoRuleCall

SpecRules == InitRules /\ [][NextRules]_vars

----------------------------------------------------------------------------
\* Properties.

Range(f) == {f[x] : x \in DOMAIN f}

\* The probes of a hook: its programs without the pivot.
ProbeIds(programs) == [k \in 1..Len(programs) |-> programs[k].program_id]

UsedIds(h) == {holder[h].programs[k].program_id : k \in 2..Len(holder[h].programs)}

Returned == last.op \in {"compile_hook", "remove_hook"} /\ last.result = "ok"

\* What a packet traverses: from key 0, each program reached continues at the
\* entry keyed by the PROGRAM_ID it was compiled with.
RECURSIVE Walk(_, _, _)
Walk(map, key, fuel) ==
    IF fuel = 0 \/ key \notin DOMAIN map THEN << >>
    ELSE <<map[key]>> \o Walk(map, loaded[map[key]], fuel - 1)

\* C1: after compile_hook or remove_hook has returned, in every non-empty hook
\* the entry keyed by programs[k-1].program_id holds the fd of programs[k], and
\* there is no entry keyed by the slot ID of the last program.
CexC1 ==
    Returned =>
        \A h \in Hooks :
            LET ps == holder[h].programs IN
            ps # <<>> =>
                /\ \A k \in 2..Len(ps) :
                      /\ ps[k - 1].program_id \in DOMAIN next_map[h]
                      /\ next_map[h][ps[k - 1].program_id] \in Range(ps[k].fds)
                /\ ps[Len(ps)].program_id \notin DOMAIN next_map[h]

\* C2: after compile_hook or remove_hook has returned, in every hook the slot
\* IDs in use and the free-list are disjoint and their union is
\* 1..MAX_PROGRAMS_PER_HOOK.
CexC2 ==
    Returned =>
        \A h \in Hooks :
            /\ UsedIds(h) \cap Range(holder[h].ids) = {}
            /\ UsedIds(h) \cup Range(holder[h].ids) = 1..MAX_PROGRAMS_PER_HOOK

\* C3: once a call has returned (trigger_read: has run), following the dispatch
\* map from key 0 visits exactly the attached probes, each once, in the order
\* of attachment, and stops at a missing entry.
CexC3 ==
    (last.op = "trigger_read" \/ last.result = "ok") =>
    \A h \in Hooks :
        LET ps == holder[h].programs
            w == Walk(next_map[h], 0, MAX_PROGRAMS_PER_HOOK + 1)
        IN /\ Len(w) = (IF ps = <<>> THEN 0 ELSE Len(ps) - 1)
           /\ \A k \in 1..Len(w) : k + 1 <= Len(ps) /\ w[k] \in Range(ps[k + 1].fds)

\* C4: a compile_hook that raises after the interface was resolved (rewrite
\* error, compilation failure of the probe or of its clone, pivot attach failure)
\* leaves the program list, the free-list, the dispatch map and the registry as
\* they were before the call.
CexC4 ==
    (/\ last.op = "compile_hook"
     /\ last.result \in {"UnknownInterface", "CompilationFailed", "AttachFailed"})
    => Snapshot(last.hook) = pre

\* C5: compile_hook on a hook that holds MAX_PROGRAMS_PER_HOOK probes fails with
\* ChainFull and leaves the hook unchanged; every attach before that succeeds.
CexC5 ==
    last.op = "compile_hook" =>
        LET attached == IF pre.programs = <<>> THEN 0 ELSE Len(pre.programs) - 1 IN
        IF attached < MAX_PROGRAMS_PER_HOOK
        THEN last.result = "ok"
        ELSE /\ last.result = "ChainFull"
             /\ Snapshot(last.hook).programs = pre.programs
             /\ Snapshot(last.hook).ids = pre.ids
             /\ Snapshot(last.hook).map = pre.map

\* A step that removes, right after a successful compile_hook, the program that
\* compile_hook returned.
CompileThenRemove ==
    /\ last.op = "compile_hook"
    /\ last.result = "ok"
    /\ last'.op = "remove_hook"
    /\ last'.result = "ok"
    /\ last'.hook = last.hook
    /\ last'.program_id = last.program_id

\* C6 (as claimed): compile_hook followed by remove_hook of the returned program
\* leaves the same free-list, in the same order, and the same dispatch map.
CexC6 ==
    [][CompileThenRemove =>
          /\ holder'[last.hook].ids = pre.ids
          /\ next_map'[last.hook] = pre.map]_vars

\* C6 (amended): compile_hook followed by remove_hook of the returned program
\* leaves the free-list with the same IDs, rotated by one (the ID taken at the
\* head is back at the tail) and the dispatch map with the contents it had
\* before, without any entry keyed by the slot ID of the previous tail.
ThmC6 ==
    [][CompileThenRemove =>
          /\ holder'[last.hook].ids = Append(Tail(pre.ids), Head(pre.ids))
          /\ next_map'[last.hook] =
                (IF pre.programs = <<>> THEN pre.map
                 ELSE MapDel(pre.map, pre.programs[Len(pre.programs)].program_id))]_vars

\* The state ThmC6 is about: a removal of the program the previous call
\* attached, on a hook that held other probes.
WitC6 ==
    /\ last.op = "remove_hook"
    /\ last.result = "ok"
    /\ last.prev.op = "compile_hook"
    /\ last.prev.result = "ok"
    /\ last.prev.program_id = last.program_id
    /\ Len(holder[last.hook].programs) >= 3

\* Scenario S2 before D is attached: A and C hold the slots 1 and 3, slot 2 was
\* freed after the slots 1, 2, 3 had been handed out.
S2Before(programs, ids) ==
    /\ ProbeIds(programs) = <<0, 1, 3>>
    /\ ids = [i \in 1..(MAX_PROGRAMS_PER_HOOK - 4) |-> i + 3] \o <<2>>

IsPrefix(s, t) == Len(s) <= Len(t) /\ \A i \in 1..Len(s) : s[i] = t[i]

\* C8: the free-list is a FIFO queue: compile_hook takes the ID at its head,
\* remove_hook appends the ID of the removed program at its tail, and so the IDs
\* are handed out in the order 1..MAX_PROGRAMS_PER_HOOK-1 followed by the
\* returned IDs in the order in which they were returned.
ThmC8 ==
    /\ (last.op = "compile_hook" /\ last.program_id # 0)
       => /\ last.program_id = Head(pre.ids)
          /\ holder[last.hook].ids = Tail(pre.ids)
    /\ (last.op = "remove_hook" /\ holder[last.hook].ids # pre.ids)
       => holder[last.hook].ids = Append(pre.ids, last.program_id)
    /\ (last.op = "remove_hook" /\ last.result = "ok")
       => /\ holder[last.hook].ids # pre.ids
          /\ last.program_id \in {pre.programs[k].program_id : k \in 2..Len(pre.programs)}
          /\ \A k \in 2..Len(holder[last.hook].programs) :
                holder[last.hook].programs[k].program_id # last.program_id
    /\ IsPrefix(handed, HookTypeHolder.ids \o returned)

\* Two IDs freed out of numerical order have both been handed out again, in
\* the order in which they were freed.
WitC8 ==
    /\ last.op = "compile_hook"
    /\ last.result = "ok"
    /\ Len(returned) = 2
    /\ returned[1] > returned[2]
    /\ Len(handed) = MAX_PROGRAMS_PER_HOOK + 1
    /\ handed[MAX_PROGRAMS_PER_HOOK] = returned[1]
    /\ handed[MAX_PROGRAMS_PER_HOOK + 1] = returned[2]

\* C9: for every attached SwapStateCompile the entry through which the chain
\* reaches it holds the fd of the program selected by its index, and no other
\* entry holds an fd of either half.
CexC9 ==
    \A h \in Hooks :
        LET ps == holder[h].programs IN
        \A k \in 2..Len(ps) :
            ps[k].swap =>
                LET key == ps[k - 1].program_id IN
                /\ key \in DOMAIN next_map[h]
                /\ next_map[h][key] = ps[k].fds[ps[k].index + 1]
                /\ \A other \in DOMAIN next_map[h] \ {key} :
                      next_map[h][other] \notin Range(ps[k].fds)

\* C10: reading a map through an attached SwapStateCompile reads, for every map
\* name of its features, an existing map of the half whose fd is not installed
\* in the dispatch map.
CexC10 ==
    \A h \in Hooks :
        LET ps == holder[h].programs IN
        \A k \in 2..Len(ps) :
            ps[k].swap =>
                \A key \in Features(ps[k].code) :
                    LET read == GetItem(ps[k], key) IN
                    /\ read.name \in MapsOfHalf(ps[k].code, read.half)
                    /\ ps[k - 1].program_id \in DOMAIN next_map[h]
                    /\ next_map[h][ps[k - 1].program_id] # ps[k].fds[read.half + 1]

\* The programs of interface idx in hook h (pivot included).
SlotOf(idx, h) == SelectSeq(holder[h].programs, LAMBDA p : p.idx = idx)

HookCallReturned == last.op \in {"compile_hook", "remove_hook"}

\* C11: after compile_hook or remove_hook has returned, with or without an
\* error, no interface whose four hook slots are empty is in the registry.
CexC11 ==
    HookCallReturned =>
        \A k \in 1..Len(interfaces_programs) :
            \E h \in Hooks : holder[h].programs # <<>>

\* C12: remove_hook drops an interface from the registry only when its four
\* hook slots are empty: every attached probe belongs to a registered
\* interface, and no remove_hook fails because the interface of its probe is
\* not registered.
CexC12 ==
    /\ (last.op = "remove_hook" /\ last.result = "ok") =>
          \A h \in Hooks : \A k \in 2..Len(holder[h].programs) :
              Registered(interfaces_programs, holder[h].programs[k].idx)
    /\ ~(last.op = "remove_hook" /\ last.result = "KeyError" /\ last.program_id = 0)

\* C13: after compile_hook or remove_hook has returned, for every interface a
\* clsact qdisc exists iff one of its two TC slots is not empty and an XDP
\* program is attached iff its XDP slot is not empty.
CexC13 ==
    HookCallReturned =>
        \A idx \in Ifaces :
            /\ idx \in DOMAIN clsact
                  <=> (SlotOf(idx, "ingress_tc") # <<>> \/ SlotOf(idx, "egress_tc") # <<>>)
            /\ idx \in DOMAIN xdp <=> SlotOf(idx, "ingress_xdp") # <<>>

\* C14: a compile_hook that injects the XDP pivot attaches it with the flags
\* the probe asked for, whatever was attached to the interface before; a later
\* XDP probe carries the flags of the pivot.
CexC14 ==
    (last.op = "compile_hook" /\ last.result = "ok" /\ last.hook = "ingress_xdp") =>
        LET ps == holder["ingress_xdp"].programs IN
        IF pre.programs = <<>>
        THEN /\ request.idx \in DOMAIN xdp
             /\ xdp[request.idx] = request.flags
             /\ ps[1].flags = request.flags
        ELSE ps[Len(ps)].flags = ps[1].flags

\* An EbpfCompiler singleton that was constructed and not torn down.
Alive(p) == instance[p].made /\ ~instance[p].is_destroyed

\* C15: the sentinel interface exists iff the EbpfCompiler singleton of some
\* process has been constructed successfully and has not been torn down.
CexC15 == sentinel <=> \E p \in Procs : Alive(p)

\* A step in which process p calls EbpfCompiler(...) without having an instance
\* while the sentinel exists.
RefusedConstruct(p) ==
    /\ last'.op = "EbpfCompiler"
    /\ last'.proc = p
    /\ nconstructs' = nconstructs + 1
    /\ ~instance[p].made
    /\ sentinel

\* C16: a construction that finds the sentinel fails with exit code 17 and
\* changes nothing: the sentinel stays, no exit hook is registered, no startup
\* program and no polling thread is created, no instance is recorded, the
\* attachments and the other process are untouched; the object it leaves is
\* marked destroyed, so that its finalization, also at the exit of the process,
\* changes nothing either.
ThmC16 ==
    [][/\ \A p \in Procs :
             RefusedConstruct(p) =>
                 /\ last'.result = "exit17"
                 /\ UNCHANGED <<hookvars, sentinel, instance, exit_hooks, startup,
                                poll_threads, running>>
                 /\ Len(garbage'[p]) = Len(garbage[p]) + 1
                 /\ SubSeq(garbage'[p], 1, Len(garbage[p])) = garbage[p]
                 /\ garbage'[p][Len(garbage'[p])].is_destroyed
       /\ \A p \in Procs :
             (/\ last'.op \in {"collect", "exit"}
              /\ last'.proc = p
              /\ ~instance[p].made
              /\ \A k \in 1..Len(garbage[p]) : garbage[p][k].is_destroyed)
             => UNCHANGED <<hookvars, sentinel, instance, startup>>]_vars

\* The second controller was refused while the first one runs with a probe
\* attached.
WitC16 ==
    /\ last.op = "EbpfCompiler"
    /\ last.result = "exit17"
    /\ last.proc = 2
    /\ Alive(1)
    /\ sentinel
    /\ clsact # << >>
    /\ Len(garbage[2]) = 1

\* C17: teardown is idempotent: a __del__ of an instance that is already
\* destroyed, called explicitly or by the exit hook, deletes no sentinel,
\* detaches no XDP program, deletes no qdisc and changes nothing else.
ThmC17 ==
    [][\A p \in Procs :
          (/\ last'.proc = p
           /\ instance[p].made
           /\ instance[p].is_destroyed)
          => /\ last'.op = "__del__" =>
                   /\ last'.result = "noop"
                   /\ UNCHANGED <<hookvars, lifevars>>
             /\ (last'.op = "exit" /\ \A k \in 1..Len(garbage[p]) : garbage[p][k].is_destroyed) =>
                   /\ last'.result = "noop"
                   /\ UNCHANGED <<hookvars, sentinel, instance, startup>>]_vars

\* A second teardown, after a first one that removed the sentinel and a qdisc
\* or an XDP program; the second controller has started in between.
WitC17 ==
    /\ last.op = "__del__"
    /\ last.result = "noop"
    /\ last.proc = 1
    /\ holder["egress_tc"].programs # <<>>
    /\ clsact = << >>
    /\ Alive(2)
    /\ sentinel

\* C18: EbpfCompiler(...) in a process that has an instance returns that
\* instance: no sentinel is created, no startup program is compiled, no polling
\* thread is started, no exit hook is registered.
ThmC18 ==
    [][\A p \in Procs :
          (/\ last'.op = "EbpfCompiler"
           /\ last'.proc = p
           /\ instance[p].made)
          => /\ last'.result = "instance"
             /\ UNCHANGED <<hookvars, sentinel, instance, garbage, exit_hooks, startup,
                            poll_threads, running>>]_vars

\* The second call of a process whose first call succeeded and started the
\* polling thread.
WitC18 ==
    /\ last.op = "EbpfCompiler"
    /\ last.result = "instance"
    /\ last.prev.op = "EbpfCompiler"
    /\ last.prev.result = "ok"
    /\ Alive(last.proc)
    /\ startup[last.proc] = 1
    /\ poll_threads[last.proc] = 1
    /\ exit_hooks[last.proc] = 1

\* C19: once the teardown of a process has returned its polling thread has
\* ended and no callback is invoked any more.
CexC19 ==
    \A p \in Procs :
        (instance[p].made /\ instance[p].is_destroyed) =>
            /\ poll_threads[p] = 0
            /\ ~(last.op = "callback" /\ last.proc = p)

\* C20: after the teardown of the controller has returned no XDP program and no
\* clsact qdisc installed by it is left on any interface.
CexC20 ==
    (last.op = "__del__" /\ last.proc = 1 /\ last.result = "ok") =>
        /\ xdp = << >>
        /\ clsact = << >>

\* The Programs of the core that are in no hook list.
Unlisted(fd) == \A h \in Hooks : fd \notin FdsOf(holder[h].programs)

\* C21: for every Program the core created (pivot, probe, either half of a
\* SwapStateCompile), bpf.cleanup() has been executed at most once, whatever
\* remove_hook calls, SwapStateCompile destructions, finalizations by the
\* garbage collector and teardowns have happened, and exactly once as soon as
\* the Program has left the hook list it was inserted in.
ThmC21 ==
    \A fd \in 1..Len(loaded) :
       /\ heap.released[fd] <= 1
       /\ fd \in heap.attached /\ Unlisted(fd) => heap.released[fd] = 1

\* A pair has been removed by remove_hook, its first half has been finalized by
\* the garbage collector afterwards, and the controller has been torn down.
WitC21 ==
    /\ instance[1].is_destroyed
    /\ \E fd \in heap.finalized :
          /\ fd \in heap.attached
          /\ fd \in heap.pairs
          /\ heap.released[fd] = 1
          /\ heap.released[fd + 1] = 1

\* C26: a compile_hook call whose interface name is no link of the host ends
\* with UnknownInterface and leaves the registry, every hook list, every
\* free-list, every dispatch map, the loaded programs and the kernel
\* attachments as they were.
ThmC26 ==
    [][ncalls' = ncalls + 1 /\ request'.interface \notin Range(Host)
        => /\ last'.op = "compile_hook"
           /\ last'.result = "UnknownInterface"
           /\ interfaces_programs' = interfaces_programs
           /\ holder' = holder
           /\ next_map' = next_map
           /\ loaded' = loaded
           /\ handed' = handed
           /\ clsact' = clsact
           /\ xdp' = xdp]_vars

\* compile_hook has been called with the name eth9 while a probe was attached.
WitC26 ==
    /\ last.op = "compile_hook"
    /\ last.result = "UnknownInterface"
    /\ request.interface = "eth9"
    /\ interfaces_programs # << >>
    /\ \E h \in Hooks : Len(holder[h].programs) = 2

\* C27: __format_helpers replaces every `return REDIRECT(<ifname>);` whose
\* ifname is a link of the host by the snippet with the index of that link,
\* and it fails with UnknownInterface exactly when some ifname is no link of
\* the host.
CexC27 ==
    output.op = "format_helpers" =>
       LET unknown == \E n \in DOMAIN source :
                         source[n].redirect /\ source[n].ifname \notin Range(Host)
           body == SubSeq(output.code, Len(output.code) - Len(source) + 1, Len(output.code))
       IN /\ output.result = "UnknownInterface" <=> unknown
          /\ ~unknown =>
                \A n \in DOMAIN source :
                   source[n].redirect =>
                      \E k \in DOMAIN Host :
                         /\ Host[k] = source[n].ifname
                         /\ body[n] = "    u32 index = " \o ToString(k)
                                         \o "; return bpf_redirect(&index, 0);"

\* The maps a source declares with __attributes__.
Attributed == {n \in DOMAIN source : source[n].attributes}

\* C28: compile_hook makes a SwapStateCompile of a source exactly when one of
\* its map declarations lists SWAP; the features hold exactly the maps declared
\* with __attributes__, and swap, export and empty of a map are set exactly
\* when SWAP, EXPORT and EMPTY are listed in its declaration.
ThmC28 ==
    output.op = "precompile_parse" =>
       /\ output.pair <=> \E n \in Attributed : "SWAP" \in source[n].keywords
       /\ {output.features[k].name : k \in DOMAIN output.features}
             = {source[n].name : n \in Attributed}
       /\ Len(output.features) = Cardinality(Attributed)
       /\ \A n \in Attributed :
             MapsGet(output.features, source[n].name).features
                = [swap |-> "SWAP" \in source[n].keywords,
                   export |-> "EXPORT" \in source[n].keywords,
                   empty |-> "EMPTY" \in source[n].keywords]

\* A source with a BPF_QUEUESTACK listing SWAP and EXPORT and a BPF_TABLE
\* listing EXPORT and EMPTY has been parsed.
WitC28 ==
    /\ output.op = "precompile_parse"
    /\ output.pair
    /\ Len(source) = 2
    /\ source[1].macro = "BPF_QUEUESTACK" /\ source[1].keywords = {"SWAP", "EXPORT"}
    /\ source[2].macro = "BPF_TABLE" /\ source[2].keywords = {"EXPORT", "EMPTY"}
    /\ MapsGet(output.features, source[2].name).features.empty

\* The name a declaration of the given macro declares.
DeclaredName(macro, line) ==
    Strip(Split(Split(line, ",")[IF macro = "BPF_TABLE" THEN 4 ELSE 2], ")")[1])

\* C29: in the clone of a source with a SWAP map, every map that lists SWAP is
\* declared under its name followed by _1, and every other map is declared
\* under its own name and as extern, whatever the names are.
CexC29 ==
    output.op = "precompile_parse" /\ output.pair =>
       \A n \in DOMAIN source :
          LET line == output.cloned_code[n]
              swapped == source[n].attributes /\ "SWAP" \in source[n].keywords
          IN IF swapped
             THEN DeclaredName(source[n].macro, line) = source[n].name \o "_1"
             ELSE /\ DeclaredName(source[n].macro, line) = source[n].name
                  /\ Contains(line, "(\"extern\",")

\* C30: a patch_hook call on an attached probe returns, and the probe is then
\* at the same position of the chain with the same slot ID, linked in the
\* dispatch map.
CexC30 ==
    last.op = "patch_hook" =>
       /\ last.result = "ok"
       /\ \E pos \in 2..Len(holder[last.hook].programs) :
             /\ holder[last.hook].programs[pos].program_id = last.program_id
             /\ holder[last.hook].programs[pos - 1].program_id \in DOMAIN next_map[last.hook]

\* C25: a record whose plugin_id/probe_id names no probe of the controller is
\* dropped: it is never handled as a log message of a probe.
CexC25 == \A k \in DOMAIN dispatcher.log : dispatcher.log[k].resolves

\* A thread is inside a call of the EbpfCompiler.
Busy(t) == thread[t].pc # "idle"

\* C24: compile_hook never loses the InterfaceHolder of its interface: from
\* the registration on, the interface of a thread inside compile_hook stays
\* registered whatever remove_hook another thread runs, and no compile_hook
\* ends in KeyError.
CexC24 ==
    /\ \A t \in Threads :
          thread[t].pc \in {"lock", "locked"} /\ thread[t].program.program_id = 0
             => Registered(interfaces_programs, thread[t].idx)
    /\ ~(last.op = "compile_hook" /\ last.result = "KeyError")

\* The locks a thread owns.
Held(t) == {h \in Hooks : lock[h].owner = t}

\* The locks a thread asks for where it is: none when it asks for none.
Wanted(t) ==
    CASE thread[t].pc \in {"lock", "locked"} -> {thread[t].h}
      [] thread[t].pc \in {"ingress_xdp", "egress_xdp", "ingress_tc", "egress_tc"} ->
            {WantedDel(thread[t].pc)}
      [] OTHER -> {}

\* The one order of the four locks.
Rank(h) ==
    CASE h = "ingress_xdp" -> 1
      [] h = "egress_xdp" -> 2
      [] h = "ingress_tc" -> 3
      [] OTHER -> 4

ThmC23 ==
    /\ [](\A t \in Threads : \A a \in Held(t), b \in Wanted(t) : a = b \/ Rank(a) < Rank(b))
    /\ \A t \in Threads : Busy(t) ~> ~Busy(t)

\* Thread 2, in __del__, owns the ingress TC lock and waits for the egress TC
\* lock, which thread 1 owns inside compile_hook or remove_hook.
WitC23 ==
    /\ thread[2].pc = "egress_tc"
    /\ lock["ingress_tc"].owner = 2
    /\ lock["egress_tc"].owner = 1
    /\ thread[1].pc = "locked"

\* C35: a compile_hook that returns has left the program list, the free-list
\* and the dispatch map of every hook slot of every other registered interface
\* as they were, and when it has registered its interface the four hook slots
\* of the new holder were empty with the full free-list.
CexC35 ==
    [][(ncalls' = ncalls + 1 /\ last'.op = "compile_hook" /\ last'.result = "ok") =>
          /\ \A k \in 1..Len(interfaces_programs) :
                interfaces_programs[k].idx # request'.idx =>
                   \A h \in Hooks : holder'[h] = holder[h] /\ next_map'[h] = next_map[h]
          /\ ~Registered(interfaces_programs, request'.idx) =>
                \A h \in Hooks : holder[h] = HookTypeHolder]_vars

\* C36: the egress XDP slot is always empty, every program of a hook list is
\* found by remove_hook in that very list when it is called with the
\* program_type the program was compiled with, and a remove_hook of an egress
\* program works on the egress TC slot and finds the program there.
ThmC36 ==
    /\ holder["egress_xdp"].programs = << >>
    /\ \A h \in Hooks : \A k \in 1..Len(holder[h].programs) :
          TypeOfInterest(ProgramTypeOf(h), holder[h].programs[k]) = h
    /\ (last.op = "remove_hook" /\ ProgramTypeOf(last.hook) = "egress") =>
          last.hook = "egress_tc" /\ last.result # "ValueError"

\* An egress probe asked for in XDP mode has been removed from the egress TC
\* slot, where other probes remain.
WitC36 ==
    /\ last.op = "remove_hook"
    /\ last.result = "ok"
    /\ last.hook = "egress_tc"
    /\ request.program_type = "egress"
    /\ request.mode = "xdp"
    /\ Len(holder["egress_tc"].programs) >= 2

\* C40: while the sentinel interface is absent a compile_hook attaches
\* nothing: it loads no program, records none in a hook list and adds no XDP
\* program and no clsact qdisc to an interface.
CexC40 ==
    [][(~sentinel /\ ncalls' = ncalls + 1 /\ last'.op = "compile_hook") =>
          /\ loaded' = loaded
          /\ holder' = holder
          /\ clsact' = clsact
          /\ xdp' = xdp]_vars

\* C38: with two threads working on the two TC hooks of one interface, first
\* attaching and then removing, no compile_hook and no remove_hook fails on
\* the clsact qdisc or on the registry.
CexC38 ==
    last.op \in {"compile_hook", "remove_hook"} =>
        last.result \notin {"NetlinkError", "KeyError"}

\* C37: whatever threads of one process call EbpfCompiler(...), no call ends
\* in the exit path of a sentinel that exists already, and at most one
\* EbpfCompiler.__init__ is running.
CexC37 ==
    /\ ~(last.op = "EbpfCompiler" /\ last.result = "exit17")
    /\ Cardinality({t \in Threads : thread[t].pc = "init"}) <= 1
\* What a call of the Controller that changes nothing leaves alone: the probes,
\* the clusters, the programs of the hooks and what the kernel holds.
ControllerUnchanged ==
    /\ probes' = probes
    /\ clusters' = clusters
    /\ controller_programs' = controller_programs
    /\ clsact' = clsact
    /\ loaded' = loaded

\* C31: get_probe and delete_probe raise PluginNotFoundException when the plugin
\* is not registered, whatever the probe name, and ProbeNotFoundException when
\* the plugin is registered without a probe of that name; in both cases the
\* probes and the attached programs stay as they were.
ThmC31 ==
    [][call'.op \in {"get_probe", "delete_probe"} =>
          /\ call'.plugin_name \notin DOMAIN probes =>
                last'.result = "PluginNotFoundException" /\ ControllerUnchanged
          /\ (/\ call'.plugin_name \in DOMAIN probes
              /\ call'.probe_name \notin DOMAIN probes[call'.plugin_name]) =>
                last'.result = "ProbeNotFoundException" /\ ControllerUnchanged]_vars

\* delete_probe of a registered probe name under a plugin that is not
\* registered, after a get_probe of an unknown probe, with programs attached.
WitC31 ==
    /\ last.op = "delete_probe"
    /\ last.result = "PluginNotFoundException"
    /\ call.probe_name \in DOMAIN probes["adaptmon"]
    /\ last.prev.op = "get_probe"
    /\ last.prev.result = "ProbeNotFoundException"
    /\ controller_programs.ingress.programs # << >>

\* get_probe(plugin_name, probe_name) returns the probe.
Retrievable(plugin_name, probe_name) ==
    CheckProbeExists(ControllerState, plugin_name, probe_name, FALSE) = "ok"

HookHas(hook, program) == \E k \in DOMAIN hook.programs : hook.programs[k] = program

\* C32: a probe is retrievable exactly from a create_probe that succeeded to the
\* next delete_probe of it that succeeded; create_probe of a registered name
\* raises ProbeAlreadyExistsException and attaches nothing, a create_probe that
\* fails registers nothing, and a delete_probe that succeeded leaves the name
\* unknown and none of the programs of the probe in a hook.
ThmC32 ==
    /\ [](\A plugin_name \in PluginNames, probe_name \in ProbeNames :
             Retrievable(plugin_name, probe_name)
                 <=> <<plugin_name, probe_name>> \in call.live)
    /\ [][/\ call'.op = "get_probe" =>
                (last'.result = "ok"
                    <=> <<call'.plugin_name, call'.probe_name>> \in call.live)
          /\ (/\ call'.op = "create_probe"
              /\ <<call'.plugin_name, call'.probe_name>> \in call.live) =>
                last'.result = "ProbeAlreadyExistsException" /\ ControllerUnchanged
          /\ (call'.op = "create_probe" /\ last'.result # "ok") => probes' = probes
          /\ (call'.op = "delete_probe" /\ last'.result = "ok") =>
                /\ call'.probe_name \notin DOMAIN probes'[call'.plugin_name]
                /\ \A program_type \in {"ingress", "egress"} :
                      LET program == probes[call'.plugin_name][call'.probe_name]
                                         .programs[program_type]
                      IN program # NoProgram =>
                            ~HookHas(controller_programs'[program_type], program)]_vars

\* A probe retrieved and then deleted, while another one stays.
WitC32 ==
    /\ last.op = "delete_probe"
    /\ last.result = "ok"
    /\ last.prev.op = "get_probe"
    /\ last.prev.result = "ok"
    /\ call.live # {}
    /\ <<call.plugin_name, call.probe_name>> \notin call.live

\* The probes of the registered clusters.
ClusterProbes ==
    UNION {{clusters[cluster_name][k] : k \in DOMAIN clusters[cluster_name]} :
              cluster_name \in DOMAIN clusters}

\* C39: every registered probe marked is_in_cluster belongs to a registered
\* cluster, whatever create_probe, delete_probe, create_cluster and
\* delete_cluster calls were made, failed ones included.
CexC39 ==
    \A plugin_name \in DOMAIN probes :
        \A probe_name \in DOMAIN probes[plugin_name] :
            probes[plugin_name][probe_name].is_in_cluster =>
                <<plugin_name, probe_name>> \in ClusterProbes


\* The bit of the rule with the given ID in the rule_words of an entry of a map;
\* an entry the map does not hold has no bit.
RuleBit(map, key, id) ==
    /\ key \in DOMAIN map
    /\ WordBits - 1 - (id % WordBits) \in map[key][id \div WordBits + 1]

\* An insert or insert_at of a new rule, at a position of the list, into the
\* list of the called plugin that already holds max_rules rules.
FullInsertion ==
    LET plugin == IF rule_call'.plugin_name = "firewall" THEN firewall ELSE mitigator
    IN /\ rule_call'.op \in {"insert", "insert_at"}
       /\ Len(plugin.rules) = plugin.max_rules
       /\ ~InSeq(plugin.rules, rule_call'.rule[1])
       /\ rule_call'.rule_id <= Len(plugin.rules)

\* C33: the rule list of the Mitigator and of the Firewall hook never holds more
\* than max_rules rules, and an insertion into a list that holds max_rules rules
\* returns MemoryError and changes neither the rule list nor the maps.
CexC33 ==
    /\ [](/\ Len(mitigator.rules) <= mitigator.max_rules
          /\ Len(firewall.rules) <= firewall.max_rules)
    /\ [][FullInsertion =>
             /\ last'.result = "MemoryError"
             /\ firewall' = firewall
             /\ mitigator' = mitigator]_vars

\* C34: a successful Firewall.delete_at(rule_id) leaves, in every entry of every
\* map, the bits of the rules below rule_id as they were, gives every position
\* from rule_id on the bit of the position above it, and clears the last one.
CexC34 ==
    [][(rule_call'.plugin_name = "firewall" /\ rule_call'.op = "delete_at"
            /\ last'.result = "ok") =>
          \A map_name \in FirewallAllMaps : \A key \in DOMAIN firewall.maps[map_name] :
              \A id \in 0..firewall.rule_ids_word_per_entry * WordBits - 1 :
                  RuleBit(firewall'.maps[map_name], key, id) <=>
                      IF id < rule_call'.rule_id
                      THEN RuleBit(firewall.maps[map_name], key, id)
                      ELSE /\ id + 1 < firewall.rule_ids_word_per_entry * WordBits
                           /\ RuleBit(firewall.maps[map_name], key, id + 1)]_vars

====
